---- MODULE Spec2Model ----
(***************************************************************************)
(* Model of the concurrent transcript acquisition engine of podder:        *)
(*   - pooledMap, the bounded-concurrency pool;                            *)
(*   - TranscriptQueue, the request / wait / check queue.                  *)
(* JavaScript runs one job at a time: every action below is one job, from  *)
(* the event that resumes it to its next await.                            *)
(***************************************************************************)
EXTENDS Integers, Sequences, FiniteSets, TLC

\* ------------------------------------------------------------------ bounds
MaxItems == 3
MaxConcurrency == 2
MaxEpisodes == 2
MaxRetries == 1
MaxRows == 2
MaxTime == 2
MaxBatch == 2
MaxStarts == 3
MaxElapses == 2
MaxFeed == 3
MaxEnrich == 4
MaxRestarts == 1

Min(a, b) == IF a < b THEN a ELSE b

VARIABLES
    \* ---- pooledMap
    items,          \* the input array (0-based: items[i + 1] is item i)
    poolConcurrency,\* options.concurrency
    delayMs,        \* options.delayMs > 0
    rejecting,      \* the indices whose operation rejects
    poolCalled,     \* pooledMap has been called
    nextIndex,      \* let nextIndex
    completed,      \* let completed
    results,        \* const results (a hole is "empty")
    wpc,            \* per worker: where it is
    widx,           \* per worker: const idx
    poolPromise,    \* the promise pooledMap returned
    progress,       \* the calls of onProgress, in order
    started,        \* the indices fn was called with, in order
    finished,       \* the indices whose fn resolved, in order
    \* ---- TranscriptQueue
    queue, total, activeRequests, waiting, activeChecks, result,
    startTimes, completedDurations,
    aborted, donePromise, doneResolve, running,
    concurrency, maxCheckRetries, retryMode, hasUserId,
    alwaysRunning,  \* the episodes the service answers "Running" for, always
    sinkThrows,     \* options.onProgress throws on every episode:status event
    restartCalls,   \* observer: the calls of start() after the first one
    guidOf,         \* per episode of the pending list: Episode.guid
    pumpPc, pc, retryCount, dbTranscript,
    \* observers of the run (not fields of the class)
    resolveCount, phaseCompletes, checks, atStop,
    \* ---- EnrichmentQueue
    eqQueue, eqTotal, eqActive, eqCompleted, eqResult,
    eqAborted, eqDonePromise, eqRunning, eqConcurrency, eqDelayMs,
    eqPc,           \* per episode: where its processEpisode is
    eqPumpTimers,   \* the pending setTimeout(() => this.pump())
    eqData,         \* the episodes whose transcript_data is stored
    eqResolveCount, \* observer: the calls of doneResolve by a running queue
    eqRestartCalls, \* observer: the calls of start() after the first one
    \* ---- PodcastDatabase
    dbRows,         \* the episodes table, in rowid order (row i has id i)
    dbNow,          \* Date.now()
    dbCall,         \* the call in progress or the last call, with its result
    \* ---- server (ServerState and the requests it has received)
    operation,      \* state.operation: { type, startedAt } or null
    transcriptQueue,\* state.transcriptQueue: the start request that set it
    enrichQueue,    \* state.enrichQueue: the start request that set it
    handler,        \* per start request: its route and where its handler is
    srvNow,         \* Date.now() in the server
    srvElapses,     \* the times the clock has been advanced
    \* ---- syncAll / syncPodcast
    syPodcasts,     \* the podcasts syncAll is called with
    syIdx,          \* syncAll's loop index i
    syPc,           \* where syncAll is: the phase of its current syncPodcast
    syAuth,         \* what getPodscribeAuthToken() returns
    syItem,         \* per row: how far each phase is with that episode
    syResult,       \* the result of the current syncPodcast
    syResults,      \* const results of syncAll
    syCalls         \* observer: the request and reset calls issued

poolVars == <<items, poolConcurrency, delayMs, rejecting, poolCalled, nextIndex,
              completed, results, wpc, widx, poolPromise, progress, started,
              finished>>
tqConfig == <<concurrency, maxCheckRetries, retryMode, hasUserId, total,
              alwaysRunning, sinkThrows, restartCalls, guidOf>>
tqCounters == <<queue, activeRequests, waiting, activeChecks, result>>
tqTiming == <<startTimes, completedDurations>>
tqLife == <<aborted, donePromise, doneResolve, running, resolveCount,
            phaseCompletes>>
tqTasks == <<pumpPc, pc, retryCount, dbTranscript, checks, atStop>>
tqVars == <<tqConfig, tqCounters, tqTiming, tqLife, tqTasks>>
eqVars == <<eqQueue, eqTotal, eqActive, eqCompleted, eqResult, eqAborted,
            eqDonePromise, eqRunning, eqConcurrency, eqDelayMs, eqPc,
            eqPumpTimers, eqData, eqResolveCount, eqRestartCalls>>
dbVars == <<dbRows, dbNow, dbCall>>
srvVars == <<operation, transcriptQueue, enrichQueue, handler, srvNow,
             srvElapses>>
syVars == <<syPodcasts, syIdx, syPc, syAuth, syItem, syResult, syResults,
            syCalls>>
notPoolVars == <<tqVars, eqVars, dbVars, srvVars, syVars>>
notTqVars == <<poolVars, eqVars, dbVars, srvVars, syVars>>
notEqVars == <<poolVars, tqVars, dbVars, srvVars, syVars>>
notDbVars == <<poolVars, tqVars, eqVars, srvVars, syVars>>
notSrvVars == <<poolVars, tqVars, eqVars, dbVars, syVars>>
notDbSyVars == <<poolVars, tqVars, eqVars, srvVars>>
vars == <<poolVars, tqVars, eqVars, dbVars, srvVars, syVars>>

\* ================================================================ pooledMap

\* The operation of the caller: any function of the item and its index that
\* tells the items and the positions apart.
Fn(item, idx) == <<item, idx>>

N == Len(items)
Workers == 1 .. MaxConcurrency

\* const workerCount = Math.min(concurrency, items.length)
WorkerCountAll == N
WorkerCount == Min(poolConcurrency, N)

\* if (delayMs > 0 && idx >= concurrency): the start is staggered
Staggered(idx) == delayMs /\ idx >= poolConcurrency

\* results[idx] = await fn(items[idx], idx), when `done` operations have
\* completed before this one
StoreByCompletion(res, idx, done, val) == [res EXCEPT ![done] = val]
Store(res, idx, done, val) == [res EXCEPT ![idx] = val]

PoolIdle ==
    /\ items = <<>> /\ poolConcurrency = 1 /\ delayMs = FALSE
    /\ rejecting = {} /\ poolCalled = FALSE /\ nextIndex = 0 /\ completed = 0
    /\ results = <<>> /\ wpc = [w \in Workers |-> "none"]
    /\ widx = [w \in Workers |-> 0] /\ poolPromise = "none"
    /\ progress = <<>> /\ started = <<>> /\ finished = <<>>

PoolInit ==
    /\ items \in UNION {[1 .. n -> {"a", "b"}] : n \in 0 .. MaxItems}
    /\ poolConcurrency \in 1 .. MaxConcurrency
    /\ delayMs \in BOOLEAN
    /\ rejecting \in SUBSET (0 .. Len(items) - 1)
    /\ poolCalled = FALSE /\ nextIndex = 0 /\ completed = 0
    /\ results = <<>> /\ wpc = [w \in Workers |-> "none"]
    /\ widx = [w \in Workers |-> 0] /\ poolPromise = "none"
    /\ progress = <<>> /\ started = <<>> /\ finished = <<>>

\* Where a worker stands after `const idx = nextIndex++`:
\* `if (idx >= items.length) return`, the stagger sleep, or the call of fn.
ClaimPc(idx) ==
    IF idx >= N THEN "returned"
    ELSE IF Staggered(idx) THEN "stagger" ELSE "running"

\* pooledMap(items, fn, options), up to `await Promise.all(...)`: every
\* worker runs synchronously to its first await.
PooledMapCall ==
    /\ ~poolCalled
    /\ poolCalled' = TRUE
    /\ IF N = 0
       THEN /\ poolPromise' = "resolved"
            /\ results' = <<>>
            /\ UNCHANGED <<nextIndex, wpc, widx, started>>
       ELSE /\ poolPromise' = "pending"
            /\ results' = [i \in 0 .. N - 1 |-> "empty"]
            /\ nextIndex' = WorkerCount
            /\ widx' = [w \in Workers |-> IF w <= WorkerCount THEN w - 1 ELSE 0]
            /\ wpc' = [w \in Workers |->
                         IF w <= WorkerCount THEN ClaimPc(w - 1) ELSE "none"]
            /\ started' = [k \in 1 .. WorkerCount |-> k - 1]
    /\ UNCHANGED <<items, poolConcurrency, delayMs, rejecting, completed,
                   progress, finished, notPoolVars>>

\* await Promise.all(workers): resolved when every worker has returned.
AllReturned(w2) == \A w \in Workers : w2[w] \in {"returned", "none"}
Settle(w2) ==
    IF poolPromise = "pending" /\ AllReturned(w2) THEN "resolved" ELSE poolPromise

\* The stagger timer of worker w fires: fn(items[idx], idx) is called.
StaggerFire(w) ==
    /\ wpc[w] = "stagger"
    /\ wpc' = [wpc EXCEPT ![w] = "running"]
    /\ started' = Append(started, widx[w])
    /\ UNCHANGED <<items, poolConcurrency, delayMs, rejecting, poolCalled,
                   nextIndex, completed, results, widx, poolPromise, progress,
                   finished, notPoolVars>>

\* completed++; onProgress?.(completed, items.length), when `done`
\* operations have completed before this one
ReportedBeforeCounting(done) == <<done, N>>
Reported(done) == <<done + 1, N>>

\* fn resolves for worker w: store, count, report, claim the next index.
FnResolve(w) ==
    /\ wpc[w] = "running"
    /\ widx[w] \notin rejecting
    /\ LET idx == widx[w]
           nxt == nextIndex
           npc == ClaimPc(nxt)
           w2 == [wpc EXCEPT ![w] = npc]
       IN /\ results' = Store(results, idx, completed, Fn(items[idx + 1], idx))
          /\ completed' = completed + 1
          /\ progress' = Append(progress, Reported(completed))
          /\ finished' = Append(finished, idx)
          /\ nextIndex' = nxt + 1
          /\ widx' = [widx EXCEPT ![w] = nxt]
          /\ wpc' = w2
          /\ started' = IF npc = "running" THEN Append(started, nxt) ELSE started
          /\ poolPromise' = Settle(w2)
    /\ UNCHANGED <<items, poolConcurrency, delayMs, rejecting, poolCalled, notPoolVars>>

\* fn rejects for worker w: the await throws out of the worker's loop, the
\* worker's promise rejects and Promise.all rejects with it. The other
\* workers are not told.
FnReject(w) ==
    /\ wpc[w] = "running"
    /\ widx[w] \in rejecting
    /\ wpc' = [wpc EXCEPT ![w] = "threw"]
    /\ poolPromise' = IF poolPromise = "pending" THEN "rejected" ELSE poolPromise
    /\ UNCHANGED <<items, poolConcurrency, delayMs, rejecting, poolCalled,
                   nextIndex, completed, results, widx, progress, started,
                   finished, notPoolVars>>

\* ========================================================== TranscriptQueue

Episodes == 1 .. MaxEpisodes

\* Episode.guid, the key of startTimes. The store keeps guids unique per
\* podcast (UNIQUE(podcast_id, guid)); a pending list over several podcasts
\* may hold the same guid twice.
OwnGuids == [e \in Episodes |-> e]
SharedGuid == [e \in Episodes |-> 1]
Guid(e) == guidOf[e]

\* What the service answers.
\*   fetchEpisodeDetail: a status ("Done" comes with a transcription id,
\*   "DoneNoId" without), or the call throws.
DetailResp == {"Done", "DoneNoId", "Running", "Processing", "NotStarted",
               "Unknown", "throw"}
\*   fetchTranscriptText: text, null (no or empty text), or the call throws.
TextResp == {"text", "null", "throw"}
\*   requestTranscription / resetTranscription: {success: true}, or
\*   {success: false, error}: HTTP 401, HTTP 403, another HTTP status or a
\*   transport error, whose text is the service's or the transport's.
CallResp == {"ok", "http401", "http403", "other", "otherSayingAuthFailed"}

\* The error string of a failed call.
ErrorText(r) ==
    CASE r = "http401" -> "Auth expired (401)"
      [] r = "http403" -> "Forbidden (403)"
      [] r = "otherSayingAuthFailed" -> "HTTP 500: Auth failed"
      [] OTHER -> "HTTP 500"

\* res.error?.includes("Auth failed")
IncludesAuthFailed(text) == text = "HTTP 500: Auth failed"

\* Where a task is.
\*   pDetail, pText, pReset, pRequest: processEpisode awaits that call
\*   sleep: scheduleCheck's timer is pending
\*   cDetail, cText: the check awaits that call
\*   done, failed, stopped: the task ended in that reported state
\*   ended: the task returned without reporting a terminal state
Initiating == {"pDetail", "pText", "pReset", "pRequest"}
CheckingPcs == {"cDetail", "cText"}
InFlight == Initiating \cup CheckingPcs \cup {"sleep"}

\* The state last reported by setEpisodeState for episode e.
EpState(e) ==
    CASE pc[e] \in {"none", "queued"} -> "queued"
      [] pc[e] \in {"pDetail", "pText", "ended"} ->
            IF retryMode THEN "checking" ELSE "requesting"
      [] pc[e] \in {"pReset", "pRequest"} -> "requesting"
      [] pc[e] = "sleep" -> "waiting"
      [] pc[e] \in CheckingPcs -> "checking"
      [] OTHER -> pc[e]

NoResult == [requested |-> 0, downloaded |-> 0, failed |-> 0,
             stillProcessing |-> 0, errors |-> <<>>]
NotStopped == [called |-> FALSE, pending |-> 0, waiting |-> 0, checking |-> 0,
               requesting |-> 0]

QueueIdle ==
    /\ queue = <<>> /\ total = 0 /\ activeRequests = 0 /\ waiting = 0
    /\ activeChecks = 0 /\ result = NoResult
    /\ startTimes = {} /\ completedDurations = 0
    /\ aborted = FALSE /\ donePromise = FALSE /\ doneResolve = FALSE
    /\ running = FALSE
    /\ concurrency = 1 /\ maxCheckRetries = 0 /\ retryMode = FALSE
    /\ hasUserId = FALSE /\ alwaysRunning = {} /\ sinkThrows = FALSE
    /\ guidOf = OwnGuids
    /\ pumpPc = "none" /\ pc = [e \in Episodes |-> "none"]
    /\ retryCount = [e \in Episodes |-> 0] /\ dbTranscript = {}
    /\ resolveCount = 0 /\ phaseCompletes = 0 /\ restartCalls = 0
    /\ checks = [e \in Episodes |-> 0]
    /\ atStop = NotStopped

\* new TranscriptQueue(db, auth, options): the pending list is what the store
\* returns, the options are the caller's.
QueueInit ==
    /\ total \in 0 .. MaxEpisodes
    /\ queue = [i \in 1 .. total |-> i]
    /\ concurrency \in 1 .. MaxConcurrency
    /\ maxCheckRetries \in 0 .. MaxRetries
    /\ retryMode \in BOOLEAN
    \* auth.userId is read in normal mode only
    /\ hasUserId \in (IF retryMode THEN {TRUE} ELSE BOOLEAN)
    /\ activeRequests = 0 /\ waiting = 0 /\ activeChecks = 0
    /\ result = NoResult /\ startTimes = {} /\ completedDurations = 0
    /\ aborted = FALSE /\ donePromise = FALSE /\ doneResolve = FALSE
    /\ running = FALSE
    /\ pumpPc = "none"
    /\ pc = [e \in Episodes |-> IF e <= total THEN "queued" ELSE "none"]
    /\ retryCount = [e \in Episodes |-> 0] /\ dbTranscript = {}
    /\ resolveCount = 0 /\ phaseCompletes = 0 /\ restartCalls = 0
    /\ checks = [e \in Episodes |-> 0]
    /\ atStop = NotStopped

\* ---- checkDone / finish

\* checkDone's condition, on the values the fields have when it is called.
CheckDoneIgnoringChecks(q, ar, w, ac) == Len(q) = 0 /\ ar = 0 /\ w = 0
CheckDoneCond(q, ar, w, ac) == Len(q) = 0 /\ ar = 0 /\ w = 0 /\ ac = 0

\* finish(), called when _running = run and doneResolve = dr.
Finish(run, dr) ==
    IF ~run /\ ~dr
    THEN /\ running' = run /\ doneResolve' = dr
         /\ UNCHANGED <<resolveCount, phaseCompletes>>
    ELSE /\ running' = FALSE
         /\ phaseCompletes' = phaseCompletes + 1
         /\ resolveCount' = IF dr THEN resolveCount + 1 ELSE resolveCount
         /\ doneResolve' = FALSE

\* checkDone(), called with these values of the fields.
CheckDone(q, ar, w, ac, run, dr) ==
    IF CheckDoneCond(q, ar, w, ac)
    THEN Finish(run, dr)
    ELSE /\ running' = run /\ doneResolve' = dr
         /\ UNCHANGED <<resolveCount, phaseCompletes>>

\* The jobs an abort has queued (the sleeps it resolved) run before any timer
\* or network event is handled.
AbortJobPending ==
    aborted /\ (pumpPc \in {"slotSleep", "staggerSleep"}
                \/ \E e \in Episodes : pc[e] = "sleep")

\* elapsed(ep), called when the task reports done or failed
Timing(e, newpc) ==
    IF newpc \in {"done", "failed"} /\ Guid(e) \in startTimes
    THEN /\ completedDurations' = completedDurations + 1
         /\ startTimes' = startTimes \ {Guid(e)}
    ELSE UNCHANGED <<startTimes, completedDurations>>

\* ---- pump

\* while (this.activeRequests >= this.concurrency && !signal.aborted)
SlotBusyNever(ar) == FALSE
SlotBusy(ar) == ar >= concurrency

\* const ep = this.queue.shift()!: what is left of the pending list
ShiftKeeping(q) == q
Shift(q) == Tail(q)

\* this.processEpisode(ep).catch(() => {}): where the call leaves the task.
\* processEpisode reports the episode's first state before its `try`: a
\* callback that throws there rejects the call ("thrown"), with the timer
\* started and the slot taken; the pump swallows the rejection.
ProcEnter == IF sinkThrows THEN "thrown" ELSE "pDetail"

\* pump()'s loop from its head to its next await, when signal.aborted = ab,
\* _running = run and doneResolve = dr.
PumpLoop(ab, run, dr) ==
    IF Len(queue) > 0 /\ ~ab
    THEN IF SlotBusy(activeRequests)
         THEN /\ pumpPc' = "slotSleep"
              /\ running' = run /\ doneResolve' = dr
              /\ UNCHANGED <<queue, activeRequests, pc, startTimes, checks,
                             resolveCount, phaseCompletes>>
         ELSE LET ep == Head(queue) IN
              /\ queue' = Shift(queue)
              /\ activeRequests' = activeRequests + 1
              /\ pc' = [pc EXCEPT ![ep] = ProcEnter]
              /\ startTimes' = startTimes \cup {Guid(ep)}
              /\ checks' = [checks EXCEPT ![ep] =
                              IF retryMode /\ ~sinkThrows THEN 1 ELSE 0]
              /\ IF Len(Shift(queue)) > 0
                 THEN /\ pumpPc' = "staggerSleep"
                      /\ running' = run /\ doneResolve' = dr
                      /\ UNCHANGED <<resolveCount, phaseCompletes>>
                 ELSE /\ pumpPc' = "exited"
                      /\ CheckDone(Shift(queue), activeRequests + 1, waiting,
                                   activeChecks, run, dr)
    ELSE /\ pumpPc' = "exited"
         /\ CheckDone(queue, activeRequests, waiting, activeChecks, run, dr)
         /\ UNCHANGED <<queue, activeRequests, pc, startTimes, checks>>

\* start()
Start ==
    /\ ~donePromise
    /\ donePromise' = TRUE
    /\ IF total = 0
       THEN /\ Finish(TRUE, TRUE)
            /\ UNCHANGED <<pumpPc, queue, activeRequests, pc, startTimes, checks>>
       ELSE PumpLoop(aborted, TRUE, TRUE)
    /\ UNCHANGED <<tqConfig, waiting, activeChecks, result, completedDurations,
                   aborted, retryCount, dbTranscript, atStop,
                   notTqVars>>

\* start(), called again: if (this.donePromise) return this.donePromise
StartAgainUnguarded ==
    /\ donePromise
    /\ restartCalls < MaxRestarts
    /\ restartCalls' = restartCalls + 1
    /\ IF total = 0
       THEN /\ Finish(TRUE, TRUE)
            /\ UNCHANGED <<pumpPc, queue, activeRequests, pc, startTimes, checks>>
       ELSE PumpLoop(aborted, TRUE, TRUE)
    /\ UNCHANGED <<concurrency, maxCheckRetries, retryMode, hasUserId, total,
                   alwaysRunning, sinkThrows, guidOf, waiting, activeChecks, result,
                   completedDurations, aborted, donePromise, retryCount,
                   dbTranscript, atStop, notTqVars>>
StartAgain ==
    /\ donePromise
    /\ restartCalls < MaxRestarts
    /\ restartCalls' = restartCalls + 1
    /\ UNCHANGED <<concurrency, maxCheckRetries, retryMode, hasUserId, total,
                   alwaysRunning, sinkThrows, guidOf, tqCounters, tqTiming, tqLife,
                   tqTasks, notTqVars>>

\* The pump's sleep ends: its timer fired, or the signal aborted it.
PumpWake ==
    /\ pumpPc \in {"slotSleep", "staggerSleep"}
    /\ PumpLoop(aborted, running, doneResolve)
    /\ UNCHANGED <<tqConfig, waiting, activeChecks, result, completedDurations,
                   aborted, donePromise, retryCount, dbTranscript,
                   atStop, notTqVars>>

\* ---- stop()

\* this.result.stillProcessing = queue.length + waiting + activeChecks
StillAtStop == Len(queue) + waiting + activeChecks

SnapshotAtStop ==
    [called |-> TRUE, pending |-> Len(queue), waiting |-> waiting,
     checking |-> activeChecks, requesting |-> activeRequests]

\* stop(), called from outside the queue's own jobs.
Stop ==
    /\ running
    /\ ~AbortJobPending
    /\ aborted' = TRUE
    /\ result' = [result EXCEPT !.stillProcessing = StillAtStop]
    /\ atStop' = SnapshotAtStop
    /\ CheckDone(queue, activeRequests, waiting, activeChecks, FALSE, doneResolve)
    /\ UNCHANGED <<tqConfig, queue, activeRequests, waiting, activeChecks,
                   tqTiming, donePromise, pumpPc, pc, retryCount, dbTranscript,
                   checks, notTqVars>>

\* ---- processEpisode

\* finally { this.activeRequests--; ... }: the slots the task gives back when
\* processEpisode returns, whatever it returns into.
ReleasedUnlessWaiting(newpc) == IF newpc = "sleep" THEN 0 ELSE 1
Released(newpc) == 1

\* scheduleCheck(ep, 1) in retry mode, scheduleCheck(ep, 0) otherwise
FirstRetryCount == IF retryMode THEN 1 ELSE 0

\* What fetchEpisodeDetail may answer for episode e.
StatusAnswers(e) == IF e \in alwaysRunning THEN {"Running"} ELSE DetailResp

\* processEpisode awaits its next call: nothing but the task's position moves.
ProcAwait(e, newpc) ==
    /\ pc' = [pc EXCEPT ![e] = newpc]
    /\ UNCHANGED <<tqConfig, tqCounters, tqTiming, tqLife, pumpPc, retryCount,
                   dbTranscript, checks, atStop>>

\* processEpisode returns for episode e: the task is left at newpc (with
\* retry count rc when it was handed to scheduleCheck), the result is res,
\* signal.aborted is ab and _running is run; then `finally` runs.
ProcExit(e, newpc, rc, res, ab, run) ==
    /\ pc' = [pc EXCEPT ![e] = newpc]
    /\ retryCount' = [retryCount EXCEPT ![e] = rc]
    /\ waiting' = IF newpc = "sleep" THEN waiting + 1 ELSE waiting
    /\ activeRequests' = activeRequests - Released(newpc)
    /\ result' = res
    /\ aborted' = ab
    /\ Timing(e, newpc)
    /\ CheckDone(queue, activeRequests - Released(newpc),
                 IF newpc = "sleep" THEN waiting + 1 ELSE waiting,
                 activeChecks, run, doneResolve)
    /\ UNCHANGED <<tqConfig, queue, activeChecks, donePromise, pumpPc, checks>>

Failed(res, kind, e) ==
    [res EXCEPT !.failed = @ + 1, !.errors = Append(@, <<kind, e>>)]

\* catch (err) of processEpisode
ProcCatch(e) ==
    /\ ProcExit(e, "failed", retryCount[e], Failed(result, "error", e), aborted,
                running)
    /\ UNCHANGED <<dbTranscript, atStop>>

\* The download of a transcript: setTranscript, downloaded++
DownloadedUncounted(res) == res
Downloaded(res) == [res EXCEPT !.downloaded = @ + 1]

\* The tail of processEpisode once the episode is in flight upstream: count
\* it as requested (normal mode), then schedule the first check unless the
\* signal is aborted.
ProcInFlight(e) ==
    LET res == IF retryMode THEN result
               ELSE [result EXCEPT !.requested = @ + 1]
    IN /\ IF ~aborted
          THEN ProcExit(e, "sleep", FirstRetryCount, res, aborted, running)
          ELSE ProcExit(e, "ended", retryCount[e], res, aborted, running)
       /\ UNCHANGED <<dbTranscript, atStop>>

\* handleAuthFailure(); return: the summary error, then stop(), which acts
\* only while _running. Its checkDone() finds this task's slot still held.
ProcAuthFailure(e) ==
    LET res == [result EXCEPT !.errors = Append(@, <<"auth", 0>>)]
    IN IF running
       THEN /\ ProcExit(e, "ended", retryCount[e],
                        [res EXCEPT !.stillProcessing = StillAtStop], TRUE, FALSE)
            /\ atStop' = SnapshotAtStop
            /\ UNCHANGED dbTranscript
       ELSE /\ ProcExit(e, "ended", retryCount[e], res, aborted, running)
            /\ UNCHANGED <<dbTranscript, atStop>>

\* if (this.retryMode) / else if (this.retryMode): the branches of
\* processEpisode that keep a retry run from resetting and requesting
RetryModeIgnored == FALSE
RetryModeOnly == retryMode

\* const userId = this.auth.userId; if (!userId)
UserIdAssumed == TRUE
AuthUserId == hasUserId

\* fetchEpisodeDetail answers r to processEpisode.
ProcDetail(e, r) ==
    /\ pc[e] = "pDetail"
    /\ ~AbortJobPending
    /\ r \in StatusAnswers(e)
    /\ CASE r = "throw" -> ProcCatch(e)
         [] r = "Done" -> ProcAwait(e, "pText")
         [] r \in {"Running", "Processing"} -> ProcInFlight(e)
         [] OTHER ->
              IF RetryModeOnly
              THEN \* not ready yet: recheck, unless aborted
                   /\ IF ~aborted
                      THEN ProcExit(e, "sleep", 0, result, aborted, running)
                      ELSE ProcExit(e, "ended", retryCount[e], result, aborted,
                                    running)
                   /\ UNCHANGED <<dbTranscript, atStop>>
              ELSE ProcAwait(e, "pRequest")
    /\ UNCHANGED notTqVars

\* fetchTranscriptText answers r to processEpisode.
ProcText(e, r) ==
    /\ pc[e] = "pText"
    /\ ~AbortJobPending
    /\ CASE r = "throw" -> ProcCatch(e)
         [] r = "text" ->
              /\ ProcExit(e, "done", retryCount[e], Downloaded(result), aborted,
                          running)
              /\ dbTranscript' = dbTranscript \cup {e}
              /\ UNCHANGED atStop
         [] OTHER ->
              IF RetryModeOnly
              THEN \* Done but no text: failed, with no entry in errors
                   /\ ProcExit(e, "failed", retryCount[e],
                               [result EXCEPT !.failed = @ + 1], aborted, running)
                   /\ UNCHANGED <<dbTranscript, atStop>>
              ELSE IF ~AuthUserId
              THEN /\ ProcExit(e, "failed", retryCount[e],
                               Failed(result, "noUserId", e), aborted, running)
                   /\ UNCHANGED <<dbTranscript, atStop>>
              ELSE ProcAwait(e, "pReset")
    /\ UNCHANGED notTqVars

\* resetTranscription (at pReset) or requestTranscription (at pRequest)
\* answers r to processEpisode.
ProcCall(e, r) ==
    /\ pc[e] \in {"pReset", "pRequest"}
    /\ ~AbortJobPending
    /\ IF r = "ok"
       THEN ProcInFlight(e)
       ELSE IF IncludesAuthFailed(ErrorText(r))
       THEN ProcAuthFailure(e)
       ELSE /\ ProcExit(e, "failed", retryCount[e],
                        Failed(result, IF pc[e] = "pReset" THEN "resetFailed"
                                       ELSE "requestFailed", e),
                        aborted, running)
            /\ UNCHANGED <<dbTranscript, atStop>>
    /\ UNCHANGED notTqVars

\* ---- scheduleCheck

\* sleep(delayMs, signal) resolves true: the timer fired; the check starts.
TimerFire(e) ==
    /\ pc[e] = "sleep"
    /\ ~aborted
    /\ waiting' = waiting - 1
    /\ activeChecks' = activeChecks + 1
    /\ pc' = [pc EXCEPT ![e] = "cDetail"]
    /\ checks' = [checks EXCEPT ![e] = @ + 1]
    /\ UNCHANGED <<tqConfig, queue, activeRequests, result, tqTiming, tqLife,
                   pumpPc, retryCount, dbTranscript, atStop,
                   notTqVars>>

\* this.setEpisodeState(ep, "stopped"): the state reported for a wait that
\* the abort ended
AbortedWaitFailed == "failed"
AbortedWait == "stopped"

\* sleep(delayMs, signal) resolves false: aborted. The episode is reported
\* stopped and counted as still processing.
AbortWake(e) ==
    /\ pc[e] = "sleep"
    /\ aborted
    /\ waiting' = waiting - 1
    /\ pc' = [pc EXCEPT ![e] = AbortedWait]
    /\ result' = [result EXCEPT !.stillProcessing = @ + 1]
    /\ CheckDone(queue, activeRequests, waiting - 1, activeChecks, running,
                 doneResolve)
    /\ UNCHANGED <<tqConfig, queue, activeRequests, activeChecks, tqTiming,
                   aborted, donePromise, pumpPc, retryCount, dbTranscript,
                   checks, atStop, notTqVars>>

\* The check awaits fetchTranscriptText.
CheckAwait(e, newpc) ==
    /\ pc' = [pc EXCEPT ![e] = newpc]
    /\ UNCHANGED <<tqConfig, tqCounters, tqTiming, tqLife, pumpPc, retryCount,
                   dbTranscript, checks, atStop>>

\* The check of episode e ends with the task at newpc (retry count rc) and
\* the result res; then `finally` runs.
CheckExit(e, newpc, rc, res) ==
    /\ pc' = [pc EXCEPT ![e] = newpc]
    /\ retryCount' = [retryCount EXCEPT ![e] = rc]
    /\ waiting' = IF newpc = "sleep" THEN waiting + 1 ELSE waiting
    /\ activeChecks' = activeChecks - 1
    /\ result' = res
    /\ Timing(e, newpc)
    /\ CheckDone(queue, activeRequests,
                 IF newpc = "sleep" THEN waiting + 1 ELSE waiting,
                 activeChecks - 1, running, doneResolve)
    /\ UNCHANGED <<tqConfig, queue, activeRequests, aborted, donePromise,
                   pumpPc, checks, atStop>>

\* if (retryCount < this.maxCheckRetries && !signal.aborted)
MayRetryIgnoringAbort(rc) == rc < maxCheckRetries
MayRetry(rc) == rc < maxCheckRetries /\ ~aborted

\* Not ready (kind "timeout") or a thrown check (kind "checkError"): retry
\* or give up.
CheckNotReadyFailingThrows(e, kind) ==
    /\ IF MayRetry(retryCount[e]) /\ kind # "checkError"
       THEN CheckExit(e, "sleep", retryCount[e] + 1, result)
       ELSE CheckExit(e, "failed", retryCount[e], Failed(result, kind, e))
    /\ UNCHANGED dbTranscript
CheckNotReady(e, kind) ==
    /\ IF MayRetry(retryCount[e])
       THEN CheckExit(e, "sleep", retryCount[e] + 1, result)
       ELSE CheckExit(e, "failed", retryCount[e], Failed(result, kind, e))
    /\ UNCHANGED dbTranscript

\* fetchEpisodeDetail answers r to the check.
CheckDetail(e, r) ==
    /\ pc[e] = "cDetail"
    /\ ~AbortJobPending
    /\ r \in StatusAnswers(e)
    /\ CASE r = "throw" -> CheckNotReady(e, "checkError")
         [] r = "Done" -> CheckAwait(e, "cText")
         [] OTHER -> CheckNotReady(e, "timeout")
    /\ UNCHANGED notTqVars

\* fetchTranscriptText answers r to the check.
CheckText(e, r) ==
    /\ pc[e] = "cText"
    /\ ~AbortJobPending
    /\ CASE r = "throw" -> CheckNotReady(e, "checkError")
         [] r = "text" ->
              /\ CheckExit(e, "done", retryCount[e], Downloaded(result))
              /\ dbTranscript' = dbTranscript \cup {e}
         [] OTHER -> CheckNotReady(e, "timeout")
    /\ UNCHANGED notTqVars

\* ========================================================== EnrichmentQueue

\* The episodes an enrichment queue may hold.
EqEpisodes == 1 .. MaxEnrich

EqNoResult == [enriched |-> 0, failed |-> 0, skipped |-> 0, errors |-> <<>>]

EnrichIdle ==
    /\ eqQueue = <<>> /\ eqTotal = 0 /\ eqActive = 0 /\ eqCompleted = 0
    /\ eqResult = EqNoResult /\ eqAborted = FALSE /\ eqDonePromise = FALSE
    /\ eqRunning = FALSE /\ eqConcurrency = 1 /\ eqDelayMs = FALSE
    /\ eqPc = [e \in EqEpisodes |-> "none"] /\ eqPumpTimers = 0
    /\ eqData = {} /\ eqResolveCount = 0 /\ eqRestartCalls = 0

\* new EnrichmentQueue(db, options): the pending list is what the store
\* returns, the options are the caller's (delayMs > 0 or not).
EnrichInit ==
    /\ eqTotal \in 0 .. MaxEnrich
    /\ eqQueue = [i \in 1 .. eqTotal |-> i]
    /\ eqConcurrency \in 1 .. MaxConcurrency
    /\ eqDelayMs \in BOOLEAN
    /\ eqActive = 0 /\ eqCompleted = 0 /\ eqResult = EqNoResult
    /\ eqAborted = FALSE /\ eqDonePromise = FALSE /\ eqRunning = FALSE
    /\ eqPc = [e \in EqEpisodes |-> IF e <= eqTotal THEN "queued" ELSE "none"]
    /\ eqPumpTimers = 0 /\ eqData = {} /\ eqResolveCount = 0
    /\ eqRestartCalls = 0

\* finish(), called when _running = run.
EqFinishUnguarded(run) ==
    eqRunning' = FALSE /\ eqResolveCount' = eqResolveCount + 1
EqFinish(run) ==
    IF ~run
    THEN eqRunning' = run /\ UNCHANGED eqResolveCount
    ELSE eqRunning' = FALSE /\ eqResolveCount' = eqResolveCount + 1

\* while (this.active < this.concurrency && this.queue.length > 0): the
\* episodes one pump() may launch when active = a
EqFreePerPump(a) == eqConcurrency
EqFree(a) == IF a < eqConcurrency THEN eqConcurrency - a ELSE 0

\* pump(), called when active = a, the tasks are at p and _running = run.
EqPump(a, p, run) ==
    IF eqAborted /\ a = 0
    THEN /\ EqFinish(run)
         /\ eqQueue' = eqQueue /\ eqActive' = a /\ eqPc' = p
    ELSE LET k == IF eqAborted THEN 0 ELSE Min(EqFree(a), Len(eqQueue))
             taken == {eqQueue[i] : i \in 1 .. k}
             rest == SubSeq(eqQueue, k + 1, Len(eqQueue))
         IN /\ eqQueue' = rest
            /\ eqActive' = a + k
            /\ eqPc' = [e \in EqEpisodes |-> IF e \in taken THEN "detail" ELSE p[e]]
            /\ IF a + k = 0 /\ Len(rest) = 0
               THEN EqFinish(run)
               ELSE eqRunning' = run /\ UNCHANGED eqResolveCount

\* start()
EqStart ==
    /\ ~eqDonePromise
    /\ eqDonePromise' = TRUE
    /\ IF eqTotal = 0
       THEN /\ EqFinish(TRUE)
            /\ UNCHANGED <<eqQueue, eqActive, eqPc>>
       ELSE EqPump(eqActive, eqPc, TRUE)
    /\ UNCHANGED <<eqTotal, eqCompleted, eqResult, eqAborted, eqConcurrency, eqRestartCalls,
                   eqDelayMs, eqPumpTimers, eqData, notEqVars>>

\* start(), called again: if (this.donePromise) return this.donePromise
EqStartAgain ==
    /\ eqDonePromise
    /\ eqRestartCalls < MaxRestarts
    /\ eqRestartCalls' = eqRestartCalls + 1
    /\ UNCHANGED <<eqQueue, eqTotal, eqActive, eqCompleted, eqResult,
                   eqAborted, eqDonePromise, eqRunning, eqConcurrency,
                   eqDelayMs, eqPc, eqPumpTimers, eqData, eqResolveCount,
                   notEqVars>>

\* stop()
EqStop ==
    /\ eqAborted' = TRUE
    /\ eqQueue' = <<>>
    /\ eqPc' = [e \in EqEpisodes |-> IF eqPc[e] = "queued" THEN "dropped"
                                   ELSE eqPc[e]]
    /\ IF eqActive = 0
       THEN EqFinish(eqRunning)
       ELSE UNCHANGED <<eqRunning, eqResolveCount>>
    /\ UNCHANGED <<eqTotal, eqActive, eqCompleted, eqResult, eqDonePromise,
                   eqConcurrency, eqRestartCalls, eqDelayMs, eqPumpTimers, eqData, notEqVars>>

\* processEpisode settles for episode e with the result res, and the
\* .finally() callback of pump runs: the slot is given back, the next pump is
\* scheduled (delayMs > 0) or run.
EqSettle(e, outcome, res) ==
    LET p == [eqPc EXCEPT ![e] = outcome] IN
    /\ eqResult' = res
    /\ eqCompleted' = eqCompleted + 1
    /\ IF eqDelayMs
       THEN /\ eqPumpTimers' = eqPumpTimers + 1
            /\ eqActive' = eqActive - 1
            /\ eqPc' = p
            /\ UNCHANGED <<eqQueue, eqRunning, eqResolveCount>>
       ELSE /\ EqPump(eqActive - 1, p, eqRunning)
            /\ UNCHANGED eqPumpTimers
    /\ UNCHANGED <<eqTotal, eqAborted, eqDonePromise, eqConcurrency, eqRestartCalls, eqDelayMs,
                   poolVars, tqVars, srvVars, syVars, dbNow, dbCall>>

\* setTranscriptData(episodeId, words):
\* UPDATE episodes SET transcript_data = ? WHERE id = ?
SetTranscriptDataAndText(rows, id, words) ==
    [i \in 1 .. Len(rows) |->
        IF i = id THEN [rows[i] EXCEPT !.data = words, !.transcript = words]
        ELSE rows[i]]
SetTranscriptData(rows, id, words) ==
    [i \in 1 .. Len(rows) |->
        IF i = id THEN [rows[i] EXCEPT !.data = words] ELSE rows[i]]

\* fetchEpisodeDetail answers r to processEpisode.
EqDetail(e, r) ==
    /\ eqPc[e] = "detail"
    /\ CASE r = "throw" ->
              /\ EqSettle(e, "failed",
                          [eqResult EXCEPT !.failed = @ + 1,
                                           !.errors = Append(@, e)])
              /\ UNCHANGED <<eqData, dbRows>>
         [] r = "Done" ->
              /\ eqPc' = [eqPc EXCEPT ![e] = "text"]
              /\ UNCHANGED <<eqQueue, eqTotal, eqActive, eqCompleted, eqResult,
                             eqAborted, eqDonePromise, eqRunning, eqConcurrency, eqRestartCalls,
                             eqDelayMs, eqPumpTimers, eqData, eqResolveCount,
                             notEqVars>>
         [] OTHER ->
              /\ EqSettle(e, "skipped", [eqResult EXCEPT !.skipped = @ + 1])
              /\ UNCHANGED <<eqData, dbRows>>

\* fetchTranscriptText answers r to processEpisode.
EqText(e, r) ==
    /\ eqPc[e] = "text"
    /\ CASE r = "throw" ->
              /\ EqSettle(e, "failed",
                          [eqResult EXCEPT !.failed = @ + 1,
                                           !.errors = Append(@, e)])
              /\ UNCHANGED <<eqData, dbRows>>
         [] r = "text" ->
              /\ EqSettle(e, "enriched", [eqResult EXCEPT !.enriched = @ + 1])
              /\ eqData' = eqData \cup {e}
              /\ dbRows' = SetTranscriptData(dbRows, e, "words")
         [] OTHER ->
              /\ EqSettle(e, "skipped", [eqResult EXCEPT !.skipped = @ + 1])
              /\ UNCHANGED <<eqData, dbRows>>

\* setTimeout(() => this.pump(), this.delayMs) fires.
EqPumpTimer ==
    /\ eqPumpTimers > 0
    /\ eqPumpTimers' = eqPumpTimers - 1
    /\ EqPump(eqActive, eqPc, eqRunning)
    /\ UNCHANGED <<eqTotal, eqCompleted, eqResult, eqAborted, eqDonePromise,
                   eqConcurrency, eqRestartCalls, eqDelayMs, eqData, notEqVars>>

\* ========================================================== PodcastDatabase

\* SQL NULL, and `undefined` in an Episode (bound as `?? null`)
NULL == "NULL"
\* podscribe_status_checked_at IS NULL
Never == -1
\* no LIMIT: limit undefined or Infinity (sqlLimit = -1)
NoLimit == -1

\* One row of `episodes`. transcript_source, podscribe_url and last_synced_at
\* are written next to transcript, podscribe_episode_id and every write, and
\* are read by no query: they are left out. title stands for the six
\* metadata columns, which are always written together.
\* Timestamps are ISO strings of equal length, compared as strings: their
\* order is the order of the instants, which is what is kept here.
Row(p, g, title, transcript, data, psId, status, checkedAt, tag) ==
    [podcastId |-> p, guid |-> g, title |-> title, transcript |-> transcript,
     data |-> data, psId |-> psId, status |-> status, checkedAt |-> checkedAt,
     tag |-> tag]

PodcastIds == {"p1", "p2"}
PodcastOf(i) == IF i % 2 = 1 THEN "p1" ELSE "p2"

RowIds == 1 .. Len(dbRows)

NoCall == [op |-> "none"]

DbIdle == dbRows = <<>> /\ dbNow = 0 /\ dbCall = NoCall

\* What a query is called with: podcastIds (the empty set: no filter) and
\* limit.
PodcastFilters == {{}, {"p1"}}
Limits == {NoLimit, 1}

\* AND podcast_id IN (...), when podcastIds is given and not empty
InPodcasts(r, podcastIds) == podcastIds = {} \/ r.podcastId \in podcastIds

\* ORDER BY published_at DESC LIMIT ?: the first `limit` of the matching
\* rows in an order the model does not fix (any publication dates).
Limited(matching, limit) ==
    IF limit = NoLimit \/ limit >= Cardinality(matching) THEN {matching}
    ELSE {S \in SUBSET matching : Cardinality(S) = limit}

\* The WHERE clause of getEpisodesNeedingTranscriptRequest
NeedsRequest(r) ==
    /\ r.transcript = NULL /\ r.psId # NULL /\ r.tag = NULL
    /\ r.status \in {NULL, "NotStarted"}

\* The WHERE clause of getEpisodesInProcessing
InProcessing(r) ==
    /\ r.transcript = NULL /\ r.psId # NULL /\ r.tag = NULL
    /\ r.status \in {"Processing", "Requested", "Running", "Done"}

\* The WHERE clause of getEpisodesNeedingEnrichment
NeedsEnrichment(r) ==
    r.transcript # NULL /\ r.data = NULL /\ r.psId # NULL

\* this.db.prepare(sql).all(...params): the ids of the rows that match
NeedingRequest(podcastIds) ==
    {i \in RowIds : NeedsRequest(dbRows[i]) /\ InPodcasts(dbRows[i], podcastIds)}
Processing(podcastIds) ==
    {i \in RowIds : InProcessing(dbRows[i]) /\ InPodcasts(dbRows[i], podcastIds)}
NeedingEnrichment(podcastIds) ==
    {i \in RowIds :
       NeedsEnrichment(dbRows[i]) /\ InPodcasts(dbRows[i], podcastIds)}

\* A query returns: the call and the ids of the rows it returned.
Returns(op, rows) ==
    /\ dbCall' = [op |-> op, rows |-> rows]
    /\ UNCHANGED <<dbRows, dbNow, notDbVars>>

\* new TranscriptQueue(db, auth, {podcastIds, maxRequests}) builds its
\* pending list.
GetEpisodesNeedingTranscriptRequest(podcastIds, limit) ==
    \E rows \in Limited(NeedingRequest(podcastIds), limit) :
        Returns("getEpisodesNeedingTranscriptRequest", rows)

\* new TranscriptQueue(db, auth, {retry: true, podcastIds, maxRequests}):
\* `limit ? all.slice(0, limit) : all`
GetEpisodesInProcessing(podcastIds, limit) ==
    \E rows \in Limited(Processing(podcastIds), limit) :
        Returns("getEpisodesInProcessing", rows)

\* new EnrichmentQueue(db, {podcastIds}) builds its pending list.
GetEpisodesNeedingEnrichment(podcastIds) ==
    \E rows \in Limited(NeedingEnrichment(podcastIds), NoLimit) :
        Returns("getEpisodesNeedingEnrichment", rows)

\* ---- upsert

\* The episodes upsertEpisodes is called with: feed or catalogue episodes of
\* two podcasts that share a guid, with or without transcript and external
\* id, and with no cached status (no caller sets one).
EpisodeInputs ==
    [podcastId : PodcastIds, guid : {1}, title : {"t1", "t2"},
     transcript : {NULL, "a"}, psId : {NULL, "ps7"}, status : {NULL}]

\* SELECT id, transcript FROM episodes WHERE podcast_id = ? AND guid = ?
Existing(rows, ep) ==
    {i \in 1 .. Len(rows) :
       rows[i].podcastId = ep.podcastId /\ rows[i].guid = ep.guid}

\* COALESCE(?, column)
CoalesceOverwriting(new, old) == new
Coalesce(new, old) == IF new # NULL THEN new ELSE old

\* upsertEpisode(episode): the table afterwards
UpsertEpisode(rows, ep) ==
    IF Existing(rows, ep) = {}
    THEN Append(rows, Row(ep.podcastId, ep.guid, ep.title, ep.transcript, NULL,
                          ep.psId, ep.status, Never, NULL))
    ELSE LET id == CHOOSE i \in Existing(rows, ep) :
                       \A j \in Existing(rows, ep) : i <= j
         IN [rows EXCEPT ![id] =
               [@ EXCEPT !.title = ep.title,
                         !.transcript = Coalesce(ep.transcript, @),
                         !.psId = Coalesce(ep.psId, @),
                         !.status = Coalesce(ep.status, @)]]

\* hasNewTranscript = episode.transcript && !existing.transcript
HasNewTranscript(rows, ep) ==
    /\ Existing(rows, ep) # {}
    /\ ep.transcript # NULL
    /\ \E i \in Existing(rows, ep) :
         (\A j \in Existing(rows, ep) : i <= j) /\ rows[i].transcript = NULL

\* A transaction of upsertEpisodes is under way.
InTransaction == dbCall.op = "upsertEpisodes" /\ dbCall.left > 0

\* upsertEpisodes(episodes) is called with `n` episodes: the transaction
\* begins. Its loop takes the episodes one by one (UpsertStep); nothing else
\* runs in between.
UpsertEpisodes(n) ==
    /\ ~InTransaction
    /\ dbCall' = [op |-> "upsertEpisodes", left |-> n, newCount |-> 0,
                  updatedCount |-> 0]
    /\ UNCHANGED <<dbRows, dbNow, notDbVars>>

\* for (const ep of eps) { this.upsertEpisode(ep); ... } for the next
\* episode, ep. (The table of the model holds at most MaxRows rows.)
UpsertStep(ep) ==
    /\ InTransaction
    /\ Existing(dbRows, ep) # {} \/ Len(dbRows) < MaxRows
    /\ dbRows' = UpsertEpisode(dbRows, ep)
    /\ dbCall' = [dbCall EXCEPT
                    !.left = @ - 1,
                    !.newCount = IF Existing(dbRows, ep) = {} THEN @ + 1 ELSE @,
                    !.updatedCount = IF HasNewTranscript(dbRows, ep)
                                     THEN @ + 1 ELSE @]
    /\ UNCHANGED <<dbNow, notDbVars>>

\* The rows after setPodscribeTranscriptStatuses / setTranscript
WithStatus(rows, p, g, status, now) ==
    [i \in 1 .. Len(rows) |->
        IF rows[i].podcastId = p /\ rows[i].guid = g
        THEN [rows[i] EXCEPT !.status = status, !.checkedAt = now]
        ELSE rows[i]]
WithTranscript(rows, p, g, text, words) ==
    [i \in 1 .. Len(rows) |->
        IF rows[i].podcastId = p /\ rows[i].guid = g
        THEN [rows[i] EXCEPT !.transcript = text, !.data = words]
        ELSE rows[i]]

\* setTranscript(podcastId, guid, transcript, source, transcriptData?)
SetTranscript(p, g, text, words) ==
    /\ ~InTransaction
    /\ dbRows' = WithTranscript(dbRows, p, g, text, words)
    /\ dbCall' = [op |-> "setTranscript"]
    /\ UNCHANGED <<dbNow, notDbVars>>

\* setPodscribeTranscriptStatuses([{podcastId, guid, status}])
SetPodscribeTranscriptStatuses(p, g, status) ==
    /\ ~InTransaction
    /\ dbRows' = WithStatus(dbRows, p, g, status, dbNow)
    /\ dbCall' = [op |-> "setPodscribeTranscriptStatuses"]
    /\ UNCHANGED <<dbNow, notDbVars>>

\* ---- the Status-Check phase of syncPodcast

\* const cutoff = new Date(Date.now() - cooldownMs)
CutoffAhead(now, cooldownMs) == now + cooldownMs
Cutoff(now, cooldownMs) == now - cooldownMs

\* The WHERE clause of getEpisodesMissingTranscripts
MissingTranscript(r, podcastId, cooldownMs) ==
    /\ r.podcastId = podcastId /\ r.transcript = NULL /\ r.tag = NULL
    /\ cooldownMs > 0 =>
         (r.checkedAt = Never \/ r.checkedAt < Cutoff(dbNow, cooldownMs))

\* for (const ep of allMissing) if (ep.podscribeEpisodeId) ...: the episodes
\* fetchEpisodeDetail is called for
PodscribeEpisodes(rows) == {i \in rows : dbRows[i].psId # NULL}

\* db.getEpisodesMissingTranscripts(podcast.id, opts.maxTranscriptFetches,
\* {cooldownMs: opts.statusCooldownMs}) and the split of its result
GetEpisodesMissingTranscripts(podcastId, limit, cooldownMs) ==
    \E rows \in Limited({i \in RowIds :
                           MissingTranscript(dbRows[i], podcastId, cooldownMs)},
                        limit) :
        /\ dbCall' = [op |-> "getEpisodesMissingTranscripts", rows |-> rows,
                      podcastId |-> podcastId, limit |-> limit,
                      cooldownMs |-> cooldownMs,
                      statusCalls |-> PodscribeEpisodes(rows)]
        /\ UNCHANGED <<dbRows, dbNow, notDbVars>>

\* ==================================================== server operation lock

\* const OPERATION_TIMEOUT_MS = 30 * 60 * 1000
OPERATION_TIMEOUT_MS == 30 * 60 * 1000

\* state.operation = null; a queue reference that is null
NoOperation == [type |-> "none", startedAt |-> Never]
NoQueue == 0

\* The start requests the server receives, in the order of their arrival.
Requests == 1 .. MaxStarts
NotArrived == [type |-> "none", pc |-> "none"]
At(h, type, at) == handler[h] = [type |-> type, pc |-> at]
Arrives(h) ==
    /\ handler[h] = NotArrived
    /\ IF h = 1 THEN TRUE ELSE handler[h - 1] # NotArrived
Goes(h, type, at) ==
    handler' = [handler EXCEPT ![h] = [type |-> type, pc |-> at]]

ServerIdle ==
    /\ operation = NoOperation
    /\ transcriptQueue = NoQueue /\ enrichQueue = NoQueue
    /\ handler = [h \in Requests |-> NotArrived]
    /\ srvNow = 0 /\ srvElapses = 0

\* const elapsed = Date.now() - state.operation.startedAt.getTime();
\* if (elapsed > OPERATION_TIMEOUT_MS)
TimedOut(op, now) == now - op.startedAt > OPERATION_TIMEOUT_MS

\* isOperationActive(state): its answer, and the state it leaves (a lock
\* older than the timeout is cleared, with both queue references)
IsOperationActive == operation # NoOperation /\ ~TimedOut(operation, srvNow)
AutoCleared == operation # NoOperation /\ TimedOut(operation, srvNow)
Checked(ref) == IF AutoCleared THEN NoQueue ELSE ref

\* startOperation(state, type)
StartOperation(type) == [type |-> type, startedAt |-> srvNow]

\* POST /api/sync, to its `await jsonBody`: the lock is taken before it.
TriggerSync(h) ==
    /\ Arrives(h)
    /\ IF IsOperationActive
       THEN /\ Goes(h, "sync", "rejected")
            /\ UNCHANGED <<operation, transcriptQueue, enrichQueue>>
       ELSE /\ Goes(h, "sync", "body")
            /\ operation' = StartOperation("sync")
            /\ transcriptQueue' = Checked(transcriptQueue)
            /\ enrichQueue' = Checked(enrichQueue)
    /\ UNCHANGED <<srvNow, srvElapses, notSrvVars>>

\* The body has arrived: syncAll starts in the background; a body that is
\* not JSON makes the handler throw with the lock taken.
SyncBody(h, json) ==
    /\ At(h, "sync", "body")
    /\ Goes(h, "sync", IF json THEN "running" ELSE "failed")
    /\ UNCHANGED <<operation, transcriptQueue, enrichQueue, srvNow,
                   srvElapses, notSrvVars>>

\* POST /api/sync/stop: clearOperation, while the sync goes on.
StopSync ==
    /\ IF operation = NoOperation \/ operation.type # "sync"
       THEN UNCHANGED <<operation, transcriptQueue, enrichQueue>>
       ELSE /\ operation' = NoOperation
            /\ transcriptQueue' = NoQueue
            /\ enrichQueue' = NoQueue
    /\ UNCHANGED <<handler, srvNow, srvElapses, notSrvVars>>

\* POST /api/transcripts/request, to its `await jsonBody`: the lock is
\* checked, and is not taken yet.
RequestTranscripts(h) ==
    /\ Arrives(h)
    /\ IF IsOperationActive
       THEN /\ Goes(h, "request", "rejected")
            /\ UNCHANGED <<operation, transcriptQueue, enrichQueue>>
       ELSE /\ Goes(h, "request", "body")
            /\ operation' = IF AutoCleared THEN NoOperation ELSE operation
            /\ transcriptQueue' = Checked(transcriptQueue)
            /\ enrichQueue' = Checked(enrichQueue)
    /\ UNCHANGED <<srvNow, srvElapses, notSrvVars>>

\* From startOperation(state, "request") on. "start": a downloader or a
\* queue with episodes starts in the background. "nothing": the queue has no
\* episode, in retry mode either, and the handler calls clearOperation.
RequestStarts(h, found) ==
    IF found = "start"
    THEN /\ Goes(h, "request", "running")
         /\ operation' = StartOperation("request")
         /\ transcriptQueue' = h
         /\ UNCHANGED enrichQueue
    ELSE /\ Goes(h, "request", "nothing")
         /\ operation' = NoOperation
         /\ transcriptQueue' = NoQueue
         /\ enrichQueue' = NoQueue

\* The body has arrived. "badJson": the handler throws. "noAuth": there is
\* nothing to download and no token (401). "validate": the Chrome token is
\* validated first (`await validateAuthToken`).
BodyOutcomes == {"badJson", "noAuth", "validate", "start", "nothing"}
RequestBody(h, r) ==
    /\ At(h, "request", "body")
    /\ IF r \in {"start", "nothing"}
       THEN RequestStarts(h, r)
       ELSE /\ Goes(h, "request",
                   CASE r = "badJson" -> "failed"
                     [] r = "noAuth" -> "refused"
                     [] OTHER -> "validating")
            /\ UNCHANGED <<operation, transcriptQueue, enrichQueue>>
    /\ UNCHANGED <<srvNow, srvElapses, notSrvVars>>

\* The validation has answered. "stale": the token is rejected (401).
RequestValidated(h, r) ==
    /\ At(h, "request", "validating")
    /\ IF r = "stale"
       THEN /\ Goes(h, "request", "stale")
            /\ UNCHANGED <<operation, transcriptQueue, enrichQueue>>
       ELSE RequestStarts(h, r)
    /\ UNCHANGED <<srvNow, srvElapses, notSrvVars>>

\* POST /api/enrich, to its `await jsonBody`: the lock is taken before it.
StartEnrichment(h) ==
    /\ Arrives(h)
    /\ IF IsOperationActive
       THEN /\ Goes(h, "enrich", "rejected")
            /\ UNCHANGED <<operation, transcriptQueue, enrichQueue>>
       ELSE /\ Goes(h, "enrich", "body")
            /\ operation' = StartOperation("enrich")
            /\ transcriptQueue' = Checked(transcriptQueue)
            /\ enrichQueue' = Checked(enrichQueue)
    /\ UNCHANGED <<srvNow, srvElapses, notSrvVars>>

\* The body has arrived: state.enrichQueue = queue; queue.start().
EnrichBody(h, json) ==
    /\ At(h, "enrich", "body")
    /\ Goes(h, "enrich", IF json THEN "running" ELSE "failed")
    /\ enrichQueue' = IF json THEN h ELSE enrichQueue
    /\ UNCHANGED <<operation, transcriptQueue, srvNow, srvElapses,
                   notSrvVars>>

\* The background operation settles, by itself or after the stop of its
\* queue: .finally(() => clearOperation(ctx.state))
OperationSettles(h) ==
    /\ handler[h].pc = "running"
    /\ Goes(h, handler[h].type, "done")
    /\ operation' = NoOperation
    /\ transcriptQueue' = NoQueue
    /\ enrichQueue' = NoQueue
    /\ UNCHANGED <<srvNow, srvElapses, notSrvVars>>

\* Time passes: a millisecond, the timeout exactly.
Elapses == {1, OPERATION_TIMEOUT_MS}
Elapse(d) ==
    /\ srvElapses < MaxElapses
    /\ srvNow' = srvNow + d
    /\ srvElapses' = srvElapses + 1
    /\ UNCHANGED <<operation, transcriptQueue, enrichQueue, handler,
                   notSrvVars>>

\* ================================================== syncPodcast and syncAll

\* What the calls of a sync answer.
\*   fetchEpisodeDetail: a status ("Done" with a transcription id, "DoneNoId"
\*   without), or the call throws.
SyStatusResp == {"Done", "DoneNoId", "NotStarted", "Running", "throw"}
\*   requestTranscription / resetTranscription: {success: true} or
\*   {success: false, error}; they catch what their transport throws.
SyCallResp == {"ok", "rejected"}
\*   getPodscribeAuthToken(): null, a token without `sub`, a token with it
SyAuths == {"none", "noUserId", "full"}

\* Where an episode of the podcast being synced is, phase by phase.
NoItem == [status |-> "none", text |-> "none", action |-> "none",
           fallback |-> "none"]
\* const result: SyncResult = { podcastId: podcast.id, ... }
NewResult(p) ==
    [podcastId |-> p, newEpisodes |-> 0, newTranscripts |-> 0, errors |-> {}]

SyncIdle ==
    /\ syPodcasts = <<>> /\ syIdx = 0 /\ syPc = "idle" /\ syAuth = "none"
    /\ syItem = <<>> /\ syResult = NewResult("none") /\ syResults = <<>>
    /\ syCalls = {}

\* The podcast syncPodcast is running for.
SyPodcast == syPodcasts[syIdx + 1]

\* result.errors.push(msg): the entries are told apart by phase and episode;
\* their order in the list is left out.
SyError(res, phase, i) == [res EXCEPT !.errors = @ \cup {<<phase, i>>}]

\* db.markSynced; return result; and syncAll's loop: results.push(result),
\* then syncPodcast for the next podcast, up to its `await parseFeed`.
SyncPodcastRejecting(it, rows, res) ==
    /\ syResults' = IF res.errors = {} THEN Append(syResults, res)
                    ELSE syResults
    /\ syIdx' = syIdx + 1
    /\ syPc' = IF res.errors # {} THEN "rejected"
               ELSE IF syIdx + 1 < Len(syPodcasts) THEN "feed" ELSE "resolved"
    /\ syResult' = IF syIdx + 1 < Len(syPodcasts)
                   THEN NewResult(syPodcasts[syIdx + 2]) ELSE res
    /\ syItem' = it
    /\ dbRows' = rows
SyncPodcastReturns(it, rows, res) ==
    /\ syResults' = Append(syResults, res)
    /\ syIdx' = syIdx + 1
    /\ syPc' = IF syIdx + 1 < Len(syPodcasts) THEN "feed" ELSE "resolved"
    /\ syResult' = IF syIdx + 1 < Len(syPodcasts)
                   THEN NewResult(syPodcasts[syIdx + 2]) ELSE res
    /\ syItem' = it
    /\ dbRows' = rows

\* The fallback loop: the episodes without external id, one after the other.
EnterFallback(it, rows, res) ==
    IF \E i \in 1 .. Len(rows) : it[i].fallback = "pending"
    THEN /\ syPc' = "fallback"
         /\ syItem' = it /\ dbRows' = rows /\ syResult' = res
         /\ UNCHANGED <<syResults, syIdx>>
    ELSE SyncPodcastReturns(it, rows, res)

\* const needsAction = [...needsRequest, ...bogusDone]
NeedsAction(it) ==
    {i \in 1 .. Len(it) : it[i].status = "NotStarted" \/ it[i].text = "bogus"}

\* if (auth): a credential is needed for Phase D
AuthAssumed == TRUE
AuthAvailable == syAuth # "none"

\* Phase D starts: if (needsAction.length > 0) { if (auth) pooledMap(...) }
EnterRequest(it, rows, res) ==
    IF NeedsAction(it) # {} /\ AuthAvailable
    THEN /\ syPc' = "request"
         /\ syItem' = [i \in 1 .. Len(rows) |->
                         IF i \in NeedsAction(it)
                         THEN [it[i] EXCEPT !.action = "pending"] ELSE it[i]]
         /\ dbRows' = rows /\ syResult' = res
         /\ UNCHANGED <<syResults, syIdx>>
    ELSE EnterFallback(it, rows, res)

\* Phase C starts: readyToDownload = the results "Done" with an id
EnterDownload(it, rows, res) ==
    IF \E i \in 1 .. Len(rows) : it[i].status = "Done"
    THEN /\ syPc' = "download"
         /\ syItem' = [i \in 1 .. Len(rows) |->
                         IF it[i].status = "Done"
                         THEN [it[i] EXCEPT !.text = "pending"] ELSE it[i]]
         /\ dbRows' = rows /\ syResult' = res
         /\ UNCHANGED <<syResults, syIdx>>
    ELSE EnterRequest(it, rows, res)

\* The status a result of Phase B is cached with
CachedStatus(st) == IF st = "DoneNoId" THEN "Done" ELSE st

\* The end of Phase B: the statuses that were fetched are cached in one
\* call of setPodscribeTranscriptStatuses.
RECURSIVE CacheStatuses(_, _, _, _)
CacheStatuses(rows, it, p, n) ==
    IF n = 0 THEN rows
    ELSE LET before == CacheStatuses(rows, it, p, n - 1) IN
         IF it[n].status \in {"Done", "DoneNoId", "NotStarted", "Running"}
         THEN WithStatus(before, p, rows[n].guid, CachedStatus(it[n].status),
                         dbNow)
         ELSE before

\* pooledMap has resolved for the phase whose episodes are at `it`: the code
\* up to the next await.
PhaseEnds(phase, it, rows, res) ==
    CASE phase = "status" ->
            EnterDownload(it, CacheStatuses(rows, it, SyPodcast, Len(rows)),
                          res)
      [] phase = "download" -> EnterRequest(it, rows, res)
      [] phase = "request" -> EnterFallback(it, rows, res)
      [] OTHER -> SyncPodcastReturns(it, rows, res)

\* An episode of a phase has been handled: the phase goes on while another
\* one is pending, and ends otherwise.
Pending(phase, it) ==
    {i \in 1 .. Len(it) :
       CASE phase = "status" -> it[i].status = "pending"
         [] phase = "download" -> it[i].text = "pending"
         [] phase = "request" -> it[i].action = "pending"
         [] OTHER -> it[i].fallback = "pending"}
ItemHandled(phase, it, rows, res) ==
    IF Pending(phase, it) # {}
    THEN /\ syItem' = it /\ dbRows' = rows /\ syResult' = res
         /\ UNCHANGED <<syPc, syResults, syIdx>>
    ELSE PhaseEnds(phase, it, rows, res)

\* syncAll(podcasts, db, options), up to the `await parseFeed` of the first
\* syncPodcast.
SyncAll ==
    /\ syPc = "idle"
    /\ syPc' = "feed"
    /\ syResult' = NewResult(syPodcasts[1])
    /\ UNCHANGED <<syPodcasts, syIdx, syAuth, syItem, syResults, syCalls,
                   dbVars, notDbSyVars>>

\* The feed episodes are upserted: the rows of the podcast, as the feed
\* gives them (no transcript, no external id).
RECURSIVE UpsertFeed(_, _, _)
UpsertFeed(rows, p, n) ==
    IF n = 0 THEN rows
    ELSE LET before == UpsertFeed(rows, p, n - 1) IN
         IF rows[n].podcastId = p
         THEN UpsertEpisode(before, [podcastId |-> p, guid |-> rows[n].guid,
                                     title |-> "t2", transcript |-> NULL,
                                     psId |-> NULL, status |-> NULL])
         ELSE before

\* parseFeed has answered: it threw (the sync of this podcast ends with one
\* error), or the feed is upserted and the episodes missing a transcript are
\* split into those with an external id, whose status is fetched, and the
\* others, left to the fallback.
ParseFeed(ok) ==
    /\ syPc = "feed"
    /\ IF ~ok
       THEN SyncPodcastReturns([i \in 1 .. Len(dbRows) |-> NoItem], dbRows,
                               SyError(syResult, "feed", 0))
       ELSE LET rows == UpsertFeed(dbRows, SyPodcast, Len(dbRows))
                missing == {i \in 1 .. Len(rows) :
                              MissingTranscript(rows[i], SyPodcast, 1)}
                it == [i \in 1 .. Len(rows) |->
                         IF i \notin missing THEN NoItem
                         ELSE IF rows[i].psId # NULL
                         THEN [NoItem EXCEPT !.status = "pending"]
                         ELSE [NoItem EXCEPT !.fallback = "pending"]]
            IN IF Pending("status", it) # {}
               THEN /\ syPc' = "status"
                    /\ syItem' = it /\ dbRows' = rows
                    /\ UNCHANGED <<syResult, syResults, syIdx>>
               ELSE EnterDownload(it, rows, syResult)
    /\ UNCHANGED <<syPodcasts, syAuth, syCalls, dbNow, dbCall, notDbSyVars>>

\* Phase B: fetchEpisodeDetail answers r for episode i.
PhaseB(i, r) ==
    /\ syPc = "status" /\ i \in Pending("status", syItem)
    /\ ItemHandled("status",
                   [syItem EXCEPT ![i].status =
                                     IF r = "throw" THEN "failed" ELSE r],
                   dbRows,
                   IF r = "throw" THEN SyError(syResult, "status", i)
                   ELSE syResult)
    /\ UNCHANGED <<syPodcasts, syAuth, syCalls, dbNow, dbCall, notDbSyVars>>

\* Phase C: fetchTranscriptText answers r for episode i.
PhaseC(i, r) ==
    /\ syPc = "download" /\ i \in Pending("download", syItem)
    /\ CASE r = "text" ->
              ItemHandled("download", [syItem EXCEPT ![i].text = "stored"],
                          WithTranscript(dbRows, SyPodcast, dbRows[i].guid,
                                         "text", "words"),
                          [syResult EXCEPT !.newTranscripts = @ + 1])
         [] r = "null" ->
              ItemHandled("download", [syItem EXCEPT ![i].text = "bogus"],
                          dbRows, syResult)
         [] OTHER ->
              ItemHandled("download", [syItem EXCEPT ![i].text = "failed"],
                          dbRows, SyError(syResult, "download", i))
    /\ UNCHANGED <<syPodcasts, syAuth, syCalls, dbNow, dbCall, notDbSyVars>>

\* Phase D for episode i: the reset of a bogus Done (when the credential has
\* a user id) or the request of a NotStarted one answers r; the episode is
\* then cached as "Requested".
StatusAfterAttemptKept(rows, p, g, r, now) ==
    IF r = "ok" THEN WithStatus(rows, p, g, "Requested", now) ELSE rows
StatusAfterAttempt(rows, p, g, r, now) ==
    WithStatus(rows, p, g, "Requested", now)
PhaseD(i, r) ==
    LET isReset == syItem[i].text = "bogus"
        called == ~isReset \/ syAuth = "full"
    IN /\ syPc = "request" /\ i \in Pending("request", syItem)
       /\ called \/ r = "ok"
       /\ syCalls' = IF called
                     THEN syCalls \cup
                            {<<IF isReset THEN "reset" ELSE "request", i>>}
                     ELSE syCalls
       /\ ItemHandled("request",
                      [syItem EXCEPT ![i].action =
                                        IF ~called THEN "skipped"
                                        ELSE IF r = "ok" THEN "accepted"
                                        ELSE "rejected"],
                      StatusAfterAttempt(dbRows, SyPodcast, dbRows[i].guid, r,
                                         dbNow),
                      syResult)
       /\ UNCHANGED <<syPodcasts, syAuth, dbNow, dbCall, notDbSyVars>>

\* The fallback loop for its next episode: adapter.fetchTranscript answers r.
PhaseFallback(r) ==
    /\ syPc = "fallback"
    /\ LET i == CHOOSE j \in Pending("fallback", syItem) :
                   \A k \in Pending("fallback", syItem) : j <= k
       IN CASE r = "text" ->
                 ItemHandled("fallback",
                             [syItem EXCEPT ![i].fallback = "stored"],
                             WithTranscript(dbRows, SyPodcast, dbRows[i].guid,
                                            "text", NULL),
                             [syResult EXCEPT !.newTranscripts = @ + 1])
            [] r = "null" ->
                 ItemHandled("fallback",
                             [syItem EXCEPT ![i].fallback = "nothing"],
                             dbRows, syResult)
            [] OTHER ->
                 ItemHandled("fallback",
                             [syItem EXCEPT ![i].fallback = "failed"],
                             dbRows, SyError(syResult, "fallback", i))
    /\ UNCHANGED <<syPodcasts, syAuth, syCalls, dbNow, dbCall, notDbSyVars>>

\* ============================================================ specifications

PoolNext ==
    \/ PooledMapCall
    \/ \E w \in Workers : StaggerFire(w)
    \/ \E w \in Workers : FnResolve(w)
    \/ \E w \in Workers : FnReject(w)

PoolSpecInit == QueueIdle /\ EnrichIdle /\ DbIdle /\ ServerIdle /\ SyncIdle /\ PoolInit
PoolSpec == PoolSpecInit /\ [][PoolNext]_vars

\* What the queue does by itself once started: timers, answers, abort jobs.
QueueRuns ==
    \/ PumpWake
    \/ \E e \in Episodes, r \in DetailResp : ProcDetail(e, r)
    \/ \E e \in Episodes, r \in TextResp : ProcText(e, r)
    \/ \E e \in Episodes, r \in CallResp : ProcCall(e, r)
    \/ \E e \in Episodes : TimerFire(e)
    \/ \E e \in Episodes : AbortWake(e)
    \/ \E e \in Episodes, r \in DetailResp : CheckDetail(e, r)
    \/ \E e \in Episodes, r \in TextResp : CheckText(e, r)

QueueNext == Start \/ Stop \/ QueueRuns

\* The service answers as it likes for every episode.
QueueSpecInit ==
    /\ PoolIdle /\ EnrichIdle /\ DbIdle /\ ServerIdle /\ SyncIdle
    /\ QueueInit /\ alwaysRunning = {} /\ sinkThrows = FALSE
    /\ guidOf = OwnGuids
QueueSpec == QueueSpecInit /\ [][QueueNext]_vars

\* Every network call and every timer eventually completes, and the caller
\* calls start().
QueueFairSpec == QueueSpec /\ WF_vars(Start \/ QueueRuns)

\* The runs in which the status of one episode is "Running" at every lookup.
AlwaysRunningInit ==
    /\ PoolIdle /\ EnrichIdle /\ DbIdle /\ ServerIdle /\ SyncIdle /\ QueueInit
    /\ alwaysRunning \in {{e} : e \in 1 .. total} /\ sinkThrows = FALSE
    /\ guidOf = OwnGuids
AlwaysRunningSpec == AlwaysRunningInit /\ [][QueueNext]_vars

\* The runs over episodes of several podcasts, with guids of their own or
\* with one guid shared.
GuidInit ==
    /\ PoolIdle /\ EnrichIdle /\ DbIdle /\ ServerIdle /\ SyncIdle
    /\ QueueInit /\ alwaysRunning = {} /\ sinkThrows = FALSE
    /\ guidOf \in {OwnGuids, SharedGuid}
GuidSpec == GuidInit /\ [][QueueNext]_vars

\* The runs whose progress callback may throw on episode:status events.
SinkInit ==
    /\ PoolIdle /\ EnrichIdle /\ DbIdle /\ ServerIdle /\ SyncIdle
    /\ QueueInit /\ alwaysRunning = {} /\ sinkThrows \in BOOLEAN
    /\ guidOf = OwnGuids
SinkSpec == SinkInit /\ [][QueueNext]_vars

\* What the enrichment queue does by itself once started.
EnrichRuns ==
    \/ \E e \in EqEpisodes, r \in DetailResp : EqDetail(e, r)
    \/ \E e \in EqEpisodes, r \in TextResp : EqText(e, r)
    \/ EqPumpTimer

EnrichNext == EqStart \/ EqStop \/ EnrichRuns

\* The queue is built on the rows the store returns for enrichment: episode
\* e of the queue is row e, with plain text, without structured data.
EnrichSpecInit ==
    /\ PoolIdle /\ QueueIdle /\ ServerIdle /\ SyncIdle /\ EnrichInit
    /\ eqTotal <= MaxEpisodes
    /\ dbNow = 0 /\ dbCall = NoCall
    /\ \E c \in [1 .. eqTotal -> [transcript : {"a", "b"},
                                   tag : {NULL, "trailer"}]] :
         dbRows = [i \in 1 .. eqTotal |->
                     Row(PodcastOf(i), i, "t1", c[i].transcript, NULL, "ps7",
                         "Done", Never, c[i].tag)]
EnrichSpec == EnrichSpecInit /\ [][EnrichNext]_vars

\* Every network call and every timer eventually completes, and the caller
\* calls start().
EnrichFairInit ==
    /\ PoolIdle /\ QueueIdle /\ ServerIdle /\ SyncIdle /\ EnrichInit
    /\ eqTotal <= MaxEpisodes
    /\ dbNow = 0 /\ dbCall = NoCall
    /\ dbRows = [i \in 1 .. eqTotal |->
                   Row(PodcastOf(i), i, "t1", "a", NULL, "ps7", "Done", Never,
                       NULL)]
EnrichFairSpec ==
    EnrichFairInit /\ [][EnrichNext]_vars /\ WF_vars(EqStart \/ EnrichRuns)

\* The enrichment runs over longer pending lists, on one store content.
EnrichPumpInit ==
    /\ PoolIdle /\ QueueIdle /\ ServerIdle /\ SyncIdle /\ EnrichInit
    /\ dbNow = 0 /\ dbCall = NoCall
    /\ dbRows = [i \in 1 .. eqTotal |->
                   Row(PodcastOf(i), i, "t1", "a", NULL, "ps7", "Done", Never,
                       NULL)]
EnrichPumpSpec == EnrichPumpInit /\ [][EnrichNext]_vars

\* One queue run at a time: a request (or retry) run, or an enrichment run.
\* The queue that has episodes runs; the other one has none.
QueuesInit ==
    /\ PoolIdle /\ DbIdle /\ ServerIdle /\ SyncIdle
    /\ \/ /\ EnrichIdle /\ QueueInit /\ alwaysRunning = {}
          /\ sinkThrows = FALSE /\ guidOf = OwnGuids
       \/ QueueIdle /\ EnrichInit /\ eqTotal <= MaxEpisodes
QueuesNext == (eqTotal = 0 /\ QueueNext) \/ (total = 0 /\ EnrichNext)
QueuesSpec == QueuesInit /\ [][QueuesNext]_vars

\* The same runs with one check per episode, and a caller that calls
\* start() again at any time.
RestartInit == QueuesInit /\ maxCheckRetries = 0
RestartNext ==
    \/ eqTotal = 0 /\ (QueueNext \/ StartAgain)
    \/ total = 0 /\ (EnrichNext \/ EqStartAgain)
RestartSpec == RestartInit /\ [][RestartNext]_vars

\* Any store content the queues can be built on: rows of distinct identity,
\* each with or without transcript, structured data, external id, tag, and
\* with any cached status.
PendingListInit ==
    /\ PoolIdle /\ QueueIdle /\ EnrichIdle /\ ServerIdle /\ SyncIdle
    /\ dbNow = 0 /\ dbCall = NoCall
    /\ \E n \in 0 .. MaxRows :
         \E c \in [1 .. n -> [transcript : {NULL, "text"},
                              data : {NULL, "words"},
                              psId : {NULL, "ps7"},
                              status : {NULL, "NotStarted", "Requested"},
                              tag : {NULL, "trailer"}]] :
            dbRows = [i \in 1 .. n |->
                        Row(PodcastOf(i), i, "t1", c[i].transcript, c[i].data,
                            c[i].psId, c[i].status, Never, c[i].tag)]
PendingListNext ==
    \/ \E f \in PodcastFilters, l \in Limits :
         GetEpisodesNeedingTranscriptRequest(f, l)
    \/ \E f \in PodcastFilters, l \in Limits : GetEpisodesInProcessing(f, l)
    \/ \E f \in PodcastFilters : GetEpisodesNeedingEnrichment(f)
PendingListSpec == PendingListInit /\ [][PendingListNext]_vars

\* The store under upserts and the writes of the queues, from an empty table.
UpsertInit == PoolIdle /\ QueueIdle /\ EnrichIdle /\ DbIdle /\ ServerIdle /\ SyncIdle
UpsertNext ==
    \/ \E n \in 0 .. MaxBatch : UpsertEpisodes(n)
    \/ \E ep \in EpisodeInputs : UpsertStep(ep)
    \/ \E p \in PodcastIds : SetTranscript(p, 1, "b", "words")
    \/ \E p \in PodcastIds : SetPodscribeTranscriptStatuses(p, 1, "Done")
UpsertSpec == UpsertInit /\ [][UpsertNext]_vars

\* Any store content at the start of a Status-Check phase: episodes with or
\* without transcript, tag and external id, never checked or checked at any
\* time up to now.
CooldownInit ==
    /\ PoolIdle /\ QueueIdle /\ EnrichIdle /\ ServerIdle /\ SyncIdle
    /\ dbNow = MaxTime /\ dbCall = NoCall
    /\ \E n \in 0 .. MaxRows :
         \E c \in [1 .. n -> [transcript : {NULL, "text"},
                              psId : {NULL, "ps7"},
                              checkedAt : {Never} \cup (0 .. MaxTime),
                              tag : {NULL, "trailer"}]] :
            dbRows = [i \in 1 .. n |->
                        Row("p1", i, "t1", c[i].transcript, NULL, c[i].psId,
                            IF c[i].checkedAt = Never THEN NULL ELSE "Running",
                            c[i].checkedAt, c[i].tag)]
CooldownNext ==
    \E l \in Limits, cd \in 0 .. MaxTime + 1 :
        GetEpisodesMissingTranscripts("p1", l, cd)
CooldownSpec == CooldownInit /\ [][CooldownNext]_vars

\* The server under start requests, sync stops, background completions and
\* the passing of time.
LockNext ==
    \/ \E h \in Requests : TriggerSync(h)
    \/ \E h \in Requests, json \in BOOLEAN : SyncBody(h, json)
    \/ StopSync
    \/ \E h \in Requests : RequestTranscripts(h)
    \/ \E h \in Requests, r \in BodyOutcomes : RequestBody(h, r)
    \/ \E h \in Requests, r \in {"stale", "start", "nothing"} :
         RequestValidated(h, r)
    \/ \E h \in Requests : StartEnrichment(h)
    \/ \E h \in Requests, json \in BOOLEAN : EnrichBody(h, json)
    \/ \E h \in Requests : OperationSettles(h)
    \/ \E d \in Elapses : Elapse(d)
LockInit == PoolIdle /\ QueueIdle /\ EnrichIdle /\ DbIdle /\ ServerIdle /\ SyncIdle
LockSpec == LockInit /\ [][LockNext]_vars

\* syncAll over one or two podcasts, on a store that holds their episodes
\* from earlier syncs: the rows of the first podcast, then those of the
\* second; each with a transcript ("text"), with an external id and no
\* transcript ("ps"), or with neither ("plain"); with any credential.
SyncInit ==
    /\ PoolIdle /\ QueueIdle /\ EnrichIdle /\ ServerIdle
    /\ dbNow = 0 /\ dbCall = NoCall
    /\ syPodcasts \in {<<"p1">>, <<"p2", "p1">>}
    /\ syAuth \in SyAuths
    /\ \E n \in 0 .. MaxFeed, k \in 0 .. MaxFeed :
         /\ k <= n
         /\ Len(syPodcasts) = 1 => k = n
         /\ \E kind \in [1 .. n -> {"text", "ps", "plain"}] :
              dbRows = [i \in 1 .. n |->
                          Row(IF i <= k THEN "p1" ELSE "p2", i, "t1",
                              IF kind[i] = "text" THEN "text" ELSE NULL, NULL,
                              IF kind[i] = "ps" THEN "ps7" ELSE NULL,
                              NULL, Never, NULL)]
    /\ syIdx = 0 /\ syPc = "idle"
    /\ syItem = [i \in 1 .. Len(dbRows) |-> NoItem]
    /\ syResult = NewResult("none") /\ syResults = <<>> /\ syCalls = {}
SyncNext ==
    \/ SyncAll
    \/ \E ok \in BOOLEAN : ParseFeed(ok)
    \/ \E i \in 1 .. MaxFeed, r \in SyStatusResp : PhaseB(i, r)
    \/ \E i \in 1 .. MaxFeed, r \in TextResp : PhaseC(i, r)
    \/ \E i \in 1 .. MaxFeed, r \in SyCallResp : PhaseD(i, r)
    \/ \E r \in TextResp : PhaseFallback(r)
SyncSpec == SyncInit /\ [][SyncNext]_vars

\* ==================================================================== claims

Range(s) == {s[i] : i \in 1 .. Len(s)}

\* ---- pooledMap

\* The operations that have been started and have not settled.
ActiveOps == {w \in Workers : wpc[w] = "running"}

\* C1: in every reachable state of pooledMap, for every input length and
\* every concurrency K >= 1, the number of operations started and not yet
\* settled is at most K.
C1_PoolConcurrencyBound ==
    /\ Cardinality(ActiveOps) <= poolConcurrency
    /\ Len(started) - Len(finished)
         - Cardinality({w \in Workers : wpc[w] = "threw"}) <= poolConcurrency

\* The bound is reached while items are still unclaimed.
C1_Witness ==
    /\ poolConcurrency = 2 /\ N = 3
    /\ Cardinality(ActiveOps) = 2
    /\ nextIndex < N

\* C2: when no operation rejects, the array pooledMap resolves with has the
\* input's length and holds at i the result of the operation on item i,
\* whatever the order of completion.
C2_PoolOrderPreserved ==
    (poolPromise = "resolved" /\ rejecting = {}) =>
        /\ DOMAIN results = 0 .. N - 1
        /\ \A i \in 0 .. N - 1 : results[i] = Fn(items[i + 1], i)

\* Item 1 (b) finished before item 0 (a), and the pool has resolved.
C2_Witness ==
    /\ poolPromise = "resolved" /\ N = 3
    /\ items[1] # items[2]
    /\ finished[1] = 1 /\ finished[2] = 0

PoolQuiescent ==
    poolCalled /\ \A w \in Workers : wpc[w] \in {"returned", "threw", "none"}

\* C3: when the operation of exactly one item rejects, the operation of
\* every other item is still started and runs to completion, for every
\* K >= 1 and every position of the rejecting item.
C3_OthersStillRun ==
    (PoolQuiescent /\ Cardinality(rejecting) = 1) =>
        /\ Range(started) = 0 .. N - 1
        /\ Range(finished) = (0 .. N - 1) \ rejecting

\* ---- TranscriptQueue

InitiatingEpisodes == {e \in Episodes : pc[e] \in Initiating}
WaitingEpisodes == {e \in Episodes : pc[e] = "sleep"}
CheckingEpisodes == {e \in Episodes : pc[e] \in CheckingPcs}

\* C4: in every reachable state at most `concurrency` episodes are in the
\* initiating step, by the counter and by the tasks themselves.
C4_RequestingBounded ==
    /\ activeRequests <= concurrency
    /\ Cardinality(InitiatingEpisodes) <= concurrency

\* Every slot is taken and the pump waits with an episode still pending.
C4_Witness ==
    /\ activeRequests = concurrency
    /\ pumpPc = "slotSleep"
    /\ Len(queue) > 0

\* The pump, woken now, takes the next episode off the pending list.
PumpCanDequeue == ENABLED (PumpWake /\ Len(queue') < Len(queue))

\* C5: a waiting episode holds no request slot: activeRequests counts the
\* episodes in the initiating step and nothing else, and whenever fewer than
\* `concurrency` episodes are in that step the waiting pump (not aborted,
\* episodes pending) can dequeue, however many episodes are waiting.
C5_WaitingHoldsNoSlot ==
    /\ activeRequests = Cardinality(InitiatingEpisodes)
    /\ waiting = Cardinality(WaitingEpisodes)
    /\ (/\ pumpPc \in {"slotSleep", "staggerSleep"}
        /\ ~aborted
        /\ Len(queue) > 0
        /\ Cardinality(InitiatingEpisodes) < concurrency) => PumpCanDequeue

\* More episodes wait than there are request slots.
C5_Witness ==
    /\ waiting > concurrency
    /\ Cardinality(WaitingEpisodes) > concurrency
    /\ activeRequests = 0

Ended == {"done", "failed", "stopped", "ended"}

\* C6: an episode whose status is "Running" at every lookup, in a run that
\* is not stopped, ends failed with a timeout error after exactly
\* maxCheckRetries + 1 check attempts: never more, and not failed with fewer.
\* A check attempt is a status lookup made while the episode is reported
\* `checking`.
C6_ExactlyMaxPlusOneChecks ==
    \A e \in alwaysRunning :
        ~aborted =>
            /\ checks[e] <= maxCheckRetries + 1
            /\ pc[e] \in Ended =>
                 /\ pc[e] = "failed"
                 /\ <<"timeout", e>> \in Range(result.errors)
                 /\ checks[e] = maxCheckRetries + 1

\* C7: the promise of start() is resolved only with the pending list empty
\* and no episode requesting, waiting or checking.
C7_ResolvedOnlyWhenDrained ==
    resolveCount > 0 =>
        /\ Len(queue) = 0
        /\ \A e \in Episodes : pc[e] \notin InFlight
        /\ activeRequests = 0 /\ waiting = 0 /\ activeChecks = 0

\* Resolved after two episodes went through waiting and checking, the second
\* one downloaded and the first one timed out.
C7_Witness ==
    /\ resolveCount = 1 /\ total = 2
    /\ pc[1] = "failed" /\ checks[1] = maxCheckRetries + 1
    /\ pc[2] = "done" /\ checks[2] = 1

\* C8: a started run on which stop() is never called (by the caller or by
\* the queue's authentication abort), and whose calls and timers all
\* complete, eventually resolves the promise of start(), whatever the
\* service answers. (The promise has no reject path: start() keeps only the
\* resolve function.)
C8_RunResolves == <>(resolveCount = 1 \/ aborted)

\* Resolved, never stopped, after a thrown lookup, a rejected request and a
\* timeout.
C8_Witness ==
    /\ resolveCount = 1 /\ ~aborted /\ total = 2
    /\ result.failed = 2
    /\ \E e \in Episodes : <<"requestFailed", e>> \in Range(result.errors)
    /\ \E e \in Episodes :
         <<"error", e>> \in Range(result.errors)
         \/ <<"checkError", e>> \in Range(result.errors)

\* Nothing of the run is left to happen: no call in flight, no timer, no job.
QueueQuiescent ==
    /\ donePromise
    /\ pumpPc \notin {"slotSleep", "staggerSleep"}
    /\ \A e \in Episodes : pc[e] \notin InFlight

\* C9: after stop() on a running queue in any state, the promise of start()
\* is resolved once the calls in flight have finished.
C9_StopResolves ==
    (atStop.called /\ QueueQuiescent) => resolveCount = 1

\* C10: stopping with M episodes pending, P waiting and no active check
\* (and, the case most favourable to the claim, no episode requesting) yields
\* a final result with stillProcessing = M + P and
\* downloaded + failed + stillProcessing = total.
C10_CancellationAccounting ==
    (/\ atStop.called /\ atStop.checking = 0 /\ atStop.requesting = 0
     /\ resolveCount = 1) =>
        /\ result.stillProcessing = atStop.pending + atStop.waiting
        /\ result.downloaded + result.failed + result.stillProcessing = total

\* The errors a check pushes when it gives up on episode e.
CheckFailureOf(e) ==
    <<"timeout", e>> \in Range(result.errors)
    \/ <<"checkError", e>> \in Range(result.errors)

\* C11: an episode waiting or checking when stop() is called is counted as
\* still processing in the final result and is not failed because of the
\* stop: no episode is failed by a check that had retries left, and the
\* final stillProcessing covers the episodes waiting and checking at the stop.
C11_StoppedNotFailed ==
    atStop.called =>
        /\ \A e \in Episodes :
             (pc[e] = "failed" /\ CheckFailureOf(e)) =>
                 retryCount[e] >= maxCheckRetries
        /\ resolveCount = 1 =>
             result.stillProcessing >= atStop.waiting + atStop.checking

\* C12: once the signal is aborted (stop() has been called), no step removes
\* an episode from the pending list, starts processEpisode for a pending
\* episode, or puts an episode into `waiting`.
C12_NoNewWorkAfterStop ==
    [][aborted =>
         /\ queue' = queue
         /\ \A e \in Episodes :
              /\ pc[e] = "queued" => pc'[e] = "queued"
              /\ pc'[e] = "sleep" => pc[e] = "sleep"]_vars

\* Stopped with an episode pending and a request in flight: the pump has
\* exited without dequeuing and the request, answered with success after the
\* stop, has not scheduled a check.
C12_Witness ==
    /\ atStop.called /\ atStop.requesting = 1
    /\ Len(queue) > 0 /\ pumpPc = "exited"
    /\ result.requested = 1
    /\ \E e \in Episodes : pc[e] = "ended"

\* C13: a transcript call in flight when the signal is aborted is answered
\* all the same; when it answers with text the episode is done with its
\* transcript in the store, and the promise of start() is then resolved.
C13_InFlightPersistsAndResolves ==
    /\ [](\A e \in Episodes : pc[e] = "done" => e \in dbTranscript)
    /\ \A e \in Episodes :
         (aborted /\ pc[e] \in {"pText", "cText"})
             ~> (resolveCount = 1 \/ pc[e] \notin {"pText", "cText", "done"})

\* C14: in normal mode, a request or reset call answered with HTTP 401 aborts
\* the run: the signal is aborted, the summary authentication error is in
\* the result, and the episode is not failed as an ordinary request failure.
C14_Http401AbortsRun ==
    [][\A e \in Episodes :
         (~retryMode /\ ProcCall(e, "http401")) =>
             /\ aborted'
             /\ <<"auth", 0>> \in Range(result'.errors)
             /\ pc'[e] # "failed"]_vars

\* ---- one task per episode

NoDuplicates(q) == \A i, j \in 1 .. Len(q) : q[i] = q[j] => i = j

EqActiveEpisodes == {e \in Episodes : eqPc[e] \in {"detail", "text"}}

\* C15: in every reachable state of a queue run each episode is in at most
\* one of pending / requesting / waiting / checking (TranscriptQueue) or
\* pending / active (EnrichmentQueue): the pending list holds an episode at
\* most once and only while no task holds it, and every counter equals the
\* number of distinct episodes in that step, so no episode has two tasks.
C15_OneTaskPerEpisode ==
    /\ NoDuplicates(queue)
    /\ \A e \in Episodes : e \in Range(queue) <=> pc[e] = "queued"
    /\ activeRequests = Cardinality(InitiatingEpisodes)
    /\ waiting = Cardinality(WaitingEpisodes)
    /\ activeChecks = Cardinality(CheckingEpisodes)
    /\ NoDuplicates(eqQueue)
    /\ \A e \in Episodes : e \in Range(eqQueue) <=> eqPc[e] = "queued"
    /\ eqActive = Cardinality(EqActiveEpisodes)

\* An episode waits for its second check while the other is requesting.
C15_Witness ==
    /\ \E e \in Episodes : pc[e] = "sleep" /\ retryCount[e] = 1 /\ checks[e] = 1
    /\ \E e \in Episodes : pc[e] \in Initiating

\* ---- storage

\* The rows the last query returned.
Returned == IF dbCall.op = "none" THEN {} ELSE dbCall.rows

\* C16: whatever the store holds, the pending list of a request run (normal
\* or retry mode) holds no episode with a transcript, and the pending list of
\* a request, retry or enrichment run holds no episode with an exclusion tag.
C16_PendingListExcludes ==
    /\ dbCall.op \in {"getEpisodesNeedingTranscriptRequest",
                      "getEpisodesInProcessing"} =>
           \A i \in Returned : dbRows[i].transcript = NULL
    /\ dbCall.op \in {"getEpisodesNeedingTranscriptRequest",
                      "getEpisodesInProcessing",
                      "getEpisodesNeedingEnrichment"} =>
           \A i \in Returned : dbRows[i].tag = NULL

\* UNIQUE(podcast_id, guid)
OneRowPerIdentity ==
    \A i, j \in RowIds :
        (dbRows[i].podcastId = dbRows[j].podcastId
         /\ dbRows[i].guid = dbRows[j].guid) => i = j

\* What upserting ep over the existing row `old` must leave as `new`.
Merged(ep, old, new) ==
    /\ new.title = ep.title
    /\ ep.transcript = NULL => new.transcript = old.transcript
    /\ ep.psId = NULL => new.psId = old.psId
    /\ ep.status = NULL => new.status = old.status

\* C19: after any sequence of upsertEpisodes calls (and writes of the
\* queues) the table holds at most one row per (podcast_id, guid); an upsert
\* of an existing identity adds no row and sets the metadata to the
\* episode's; and an upsert that carries no transcript (no external id, no
\* status) leaves the stored transcript (external id, status) as it was.
C19_IdempotentUpsert ==
    /\ []OneRowPerIdentity
    /\ [][\A ep \in EpisodeInputs :
            (UpsertStep(ep) /\ Existing(dbRows, ep) # {}) =>
                /\ Len(dbRows') = Len(dbRows)
                /\ \A i \in Existing(dbRows, ep) :
                     Merged(ep, dbRows[i], dbRows'[i])
                /\ \A i \in RowIds \ Existing(dbRows, ep) :
                     dbRows'[i] = dbRows[i]]_vars

\* Two podcasts hold an episode with the same guid; the first one's was
\* downloaded by the queue and then upserted again with a new title and
\* no transcript.
C19_Witness ==
    /\ Len(dbRows) = 2
    /\ dbRows[1].transcript = "b" /\ dbRows[1].title = "t2"
    /\ dbRows[1].status = "Done"
    /\ dbRows[2].guid = dbRows[1].guid
    /\ dbCall.op = "upsertEpisodes" /\ dbCall.newCount = 0

\* Within the cooldown window: checked, and now - statusCheckedAt < cooldownMs.
WithinCooldown(r, cooldownMs) ==
    r.checkedAt # Never /\ dbNow - r.checkedAt < cooldownMs

\* Never checked, or checked before the window; no transcript, no tag.
DueForCheck(r, cooldownMs) ==
    /\ r.checkedAt = Never \/ dbNow - r.checkedAt > cooldownMs
    /\ r.transcript = NULL /\ r.tag = NULL

RunningOperations == {h \in Requests : handler[h].pc = "running"}
StartArrives(h) ==
    TriggerSync(h) \/ RequestTranscripts(h) \/ StartEnrichment(h)
StartResumes(h) ==
    \/ \E json \in BOOLEAN : SyncBody(h, json) \/ EnrichBody(h, json)
    \/ \E r \in BodyOutcomes : RequestBody(h, r)
    \/ \E r \in {"stale", "start", "nothing"} : RequestValidated(h, r)
HeldFor == srvNow - operation.startedAt

\* C17: whatever the interleaving of start requests (their handlers
\* overlapping at their awaits) and stop requests, at most one operation is
\* running at any time, and a start request that arrives while an operation
\* is running is rejected.
C17_OneOperationAtATime ==
    /\ [](Cardinality(RunningOperations) <= 1)
    /\ [][\A h \in Requests :
            (StartArrives(h) /\ RunningOperations # {})
                => handler'[h].pc = "rejected"]_vars

\* C18: a start request that arrives when the lock has been held for longer
\* than the timeout clears that lock and is not rejected; no step of a start
\* request clears a lock that has been held for less than the timeout.
C18_OnlyAbandonedLocksCleared ==
    [][\A h \in Requests :
         /\ (StartArrives(h) /\ operation # NoOperation
                 /\ HeldFor > OPERATION_TIMEOUT_MS)
               => (handler'[h].pc # "rejected" /\ operation' # operation)
         /\ ((StartArrives(h) \/ StartResumes(h))
                 /\ operation # NoOperation
                 /\ HeldFor < OPERATION_TIMEOUT_MS)
               => operation' # NoOperation]_vars

\* ---- TranscriptQueue: retry mode, bogus Done, thrown checks

\* C26: in retry mode, whatever the service reports, the queue never issues
\* a request call or a reset call.
C26_RetryModeOnlyPolls ==
    retryMode => \A e \in Episodes : pc[e] \notin {"pReset", "pRequest"}

\* A retry run has got a status with nothing to do for one episode and has
\* scheduled its recheck, and has got Done without text for another.
C26_Witness ==
    /\ retryMode
    /\ \E e, o \in Episodes :
         /\ pc[e] = "sleep" /\ retryCount[e] = 0
         /\ pc[o] = "failed" /\ result.errors = <<>>

\* The answer "Done, no text" reaches processEpisode for episode e.
BogusDone(e) == ProcText(e, "null")
OthersUntouched(e) ==
    /\ \A o \in Episodes \ {e} : pc'[o] = pc[o]
    /\ queue' = queue /\ aborted' = aborted
    /\ activeRequests' = activeRequests - 1

\* C27: in normal mode, Done without text and no user identifier: the
\* episode ends failed at once with an error, without a reset call and
\* without waiting, and the run goes on for the others; with a user
\* identifier the reset is called, and when it succeeds (the run not being
\* stopped) the episode is waiting.
C27_BogusDoneNeedsUserId ==
    [][\A e \in Episodes :
         /\ (BogusDone(e) /\ ~retryMode /\ ~hasUserId)
               => /\ pc'[e] = "failed"
                  /\ result'.failed = result.failed + 1
                  /\ result'.errors = Append(result.errors, <<"noUserId", e>>)
                  /\ waiting' = waiting
                  /\ OthersUntouched(e)
         /\ (BogusDone(e) /\ ~retryMode /\ hasUserId) => pc'[e] = "pReset"
         /\ (pc[e] = "pReset" /\ ProcCall(e, "ok") /\ ~aborted)
               => (pc'[e] = "sleep" /\ waiting' = waiting + 1)
         /\ (~hasUserId => pc'[e] # "pReset")
         /\ (pc[e] = "failed" => pc'[e] = "failed")]_vars

\* An episode has failed for want of a user identifier and another one of
\* the run has been downloaded after it.
C27_Witness ==
    \E e, o \in Episodes :
      /\ pc[e] = "failed" /\ pc[o] = "done"
      /\ result.errors = <<(<<"noUserId", e>>)>>
      /\ e < o

\* A check of episode e throws, at either of its calls.
CheckThrows(e) == CheckDetail(e, "throw") \/ CheckText(e, "throw")

\* C28: a check that throws, the run not being stopped, takes one retry
\* from the budget: below maxCheckRetries the episode waits again with one
\* retry more, at maxCheckRetries it ends failed; and a check that gets the
\* text completes the episode as done whatever was thrown before.
C28_ThrownCheckConsumesRetry ==
    [][\A e \in Episodes :
         /\ (CheckThrows(e) /\ ~aborted /\ retryCount[e] < maxCheckRetries)
               => /\ pc'[e] = "sleep"
                  /\ retryCount'[e] = retryCount[e] + 1
                  /\ result' = result
         /\ (CheckThrows(e) /\ ~aborted /\ retryCount[e] = maxCheckRetries)
               => /\ pc'[e] = "failed"
                  /\ result'.failed = result.failed + 1
         /\ CheckText(e, "text")
               => (pc'[e] = "done"
                   /\ result'.downloaded = result.downloaded + 1)]_vars

\* A check has thrown with the budget used up, after an earlier retry.
C28_Witness ==
    \E e \in Episodes :
      /\ pc[e] = "failed" /\ retryCount[e] = 1 /\ ~aborted
      /\ \E i \in 1 .. Len(result.errors) :
           result.errors[i] = <<"checkError", e>>

\* ---- EnrichmentQueue

EqInFlight == {"detail", "text"}
EqEnded == {"enriched", "skipped", "failed"}
EqCounter(res, outcome) ==
    CASE outcome = "enriched" -> res.enriched
      [] outcome = "skipped" -> res.skipped
      [] OTHER -> res.failed

\* C29: every dequeued episode ends once, as enriched, as skipped (status
\* not Done, no transcription id, no word data) or as failed (a call threw),
\* and adds one to that counter and to no other, so that enriched + skipped
\* + failed is the number of completed tasks; and no step of the queue
\* changes the plain text of a row.
C29_OneOutcomePerEpisode ==
    /\ [](eqResult.enriched + eqResult.skipped + eqResult.failed = eqCompleted)
    /\ [][\A e \in Episodes :
            /\ (eqPc[e] \in EqInFlight /\ eqPc'[e] \notin EqInFlight)
                  => /\ eqPc'[e] \in EqEnded
                     /\ \A o \in EqEnded :
                          EqCounter(eqResult', o) =
                            EqCounter(eqResult, o)
                              + (IF o = eqPc'[e] THEN 1 ELSE 0)
            /\ (eqPc[e] \in EqEnded => eqPc'[e] = eqPc[e])
            /\ (eqPc'[e] = "failed" /\ eqPc[e] # "failed")
                  => (EqDetail(e, "throw") \/ EqText(e, "throw"))
            /\ (eqPc'[e] = "enriched" /\ eqPc[e] # "enriched")
                  => (EqText(e, "text") /\ dbRows'[e].data = "words")]_vars
    /\ [][/\ Len(dbRows') = Len(dbRows)
          /\ \A i \in 1 .. Len(dbRows) :
                dbRows'[i].transcript = dbRows[i].transcript]_vars

\* One episode has been enriched, its words stored, and another skipped.
C29_Witness ==
    \E e, o \in Episodes :
      /\ eqPc[e] = "enriched" /\ dbRows[e].data = "words"
      /\ dbRows[e].transcript \in {"a", "b"}
      /\ eqPc[o] = "skipped"

\* C30: once stop() has been called, no episode is dequeued, the tasks in
\* flight complete and still store their data, and the promise of start()
\* is resolved, once; also when stop() comes before start() or finds nothing
\* in flight.
C30_StopDrainsAndResolves ==
    /\ [][eqAborted =>
            /\ eqQueue' = <<>>
            /\ \A e \in Episodes :
                 /\ eqPc'[e] \in EqInFlight => eqPc[e] \in EqInFlight
                 /\ EqText(e, "text") => dbRows'[e].data = "words"]_vars
    /\ [](eqResolveCount <= 1)
    /\ \A e \in Episodes :
         (eqAborted /\ eqPc[e] \in EqInFlight) ~> (eqPc[e] \in EqEnded)
    /\ (eqAborted /\ eqDonePromise) ~> (eqResolveCount = 1)
    /\ (eqAborted /\ ~eqDonePromise) ~> (eqResolveCount = 1)

\* stop() has been called with a task in flight and an episode pending.
C30_Witness ==
    /\ eqAborted /\ eqRunning /\ eqResolveCount = 0
    /\ \E e, o \in Episodes : eqPc[e] = "text" /\ eqPc[o] = "dropped"

\* ---- syncPodcast and syncAll

\* The last syncPodcast has returned; its result; the errors of the
\* syncPodcast that runs or ran last.
SyReturned == syPc \in {"feed", "resolved"} /\ Len(syResults) > 0
SyLast == syResults[Len(syResults)]
SyErrors == IF SyReturned THEN SyLast.errors ELSE syResult.errors
SyRows == 1 .. Len(syItem)
SyStored ==
    {i \in SyRows : syItem[i].text = "stored" \/ syItem[i].fallback = "stored"}
SyThrown ==
    {<<"status", i>> : i \in {j \in SyRows : syItem[j].status = "failed"}}
      \cup {<<"download", i>> : i \in {j \in SyRows : syItem[j].text = "failed"}}
      \cup {<<"fallback", i>> :
               i \in {j \in SyRows : syItem[j].fallback = "failed"}}

\* The feed of three episodes: one with a transcript, one Done with text,
\* one NotStarted; no credential; the sync has returned.
SyScenario ==
    /\ syAuth = "none" /\ syPodcasts = <<"p1">> /\ syPc = "resolved"
    /\ Len(dbRows) = 3
    /\ \E a, b, c \in SyRows :
         /\ {a, b, c} = SyRows
         /\ syItem[a] = NoItem
         /\ syItem[b].status = "Done" /\ syItem[b].text = "stored"
         /\ syItem[c].status = "NotStarted"

\* C21: with no credential, no request and no reset call is issued, Phase D
\* is never entered, the errors of the result are those of the calls that
\* threw, and the result counts the transcripts stored; in the scenario of
\* three episodes the result has newTranscripts = 1 and no error.
C21_NoCredentialSkipsRequests ==
    syAuth = "none" =>
      /\ syCalls = {} /\ syPc # "request"
      /\ \A i \in SyRows : syItem[i].action = "none"
      /\ SyReturned /\ SyLast.errors # {<<"feed", 0>>} =>
            /\ SyLast.newTranscripts = Cardinality(SyStored)
            /\ SyLast.errors = SyThrown
      /\ SyScenario => (SyLast.newTranscripts = 1 /\ SyLast.errors = {})

\* The scenario has been run to its end.
C21_Witness == SyScenario

\* C22: a Done episode whose text fetch returns nothing is bogus-done: no
\* error and no new transcript for it; with a credential a reset call is
\* issued for it, and after a reset that succeeded its cached status is
\* not Done.
C22_BogusDoneIsReset ==
    \A i \in SyRows :
      syItem[i].text = "bogus" =>
        /\ <<"download", i>> \notin SyErrors /\ i \notin SyStored
        /\ (syAuth # "none" /\ syItem[i].action \notin {"none", "pending"})
              => <<"reset", i>> \in syCalls
        /\ syItem[i].action = "accepted" => dbRows[i].status # "Done"

\* C23: in the status, download, request and fallback phases, whatever
\* fails for one episode (a call that throws, a request or reset the
\* service rejects) is in the error list, and no episode of the phase is
\* left unhandled when the sync returns.
C23_FailuresRecordedPerItem ==
    \A i \in SyRows :
      /\ syItem[i].status = "failed" => <<"status", i>> \in SyErrors
      /\ syItem[i].text = "failed" => <<"download", i>> \in SyErrors
      /\ syItem[i].action = "rejected" => <<"request", i>> \in SyErrors
      /\ syItem[i].fallback = "failed" => <<"fallback", i>> \in SyErrors
      /\ SyReturned =>
            "pending" \notin {syItem[i].status, syItem[i].text,
                              syItem[i].action, syItem[i].fallback}

\* C24: when the feed fetch of a podcast fails, its result has one error
\* and nothing else, no later phase runs for it (the store and the calls
\* are untouched), syncAll goes on with the next podcast, and resolves with
\* one result per podcast in the order of its input.
C24_FeedFailureIsLocal ==
    /\ [][ParseFeed(FALSE) =>
            /\ syResults' =
                  Append(syResults,
                         [NewResult(SyPodcast) EXCEPT !.errors = {<<"feed", 0>>}])
            /\ dbRows' = dbRows /\ syCalls' = syCalls
            /\ syPc' = IF syIdx + 1 < Len(syPodcasts) THEN "feed"
                       ELSE "resolved"]_vars
    /\ [](/\ Len(syResults) <= Len(syPodcasts)
          /\ \A k \in 1 .. Len(syResults) :
                syResults[k].podcastId = syPodcasts[k]
          /\ syPc = "resolved" => Len(syResults) = Len(syPodcasts))

\* The feed of the first of two podcasts failed and the second one got a
\* transcript.
C24_Witness ==
    /\ syPc = "resolved" /\ Len(syResults) = 2
    /\ syResults[1].errors = {<<"feed", 0>>}
    /\ syResults[2].newTranscripts > 0 /\ syResults[2].errors = {}

\* C25: after a request or a reset was attempted for an episode, accepted
\* or rejected, the status cached for it is Requested.
C25_AttemptCachesRequested ==
    \A i \in SyRows :
      syItem[i].action \in {"accepted", "rejected"} =>
        dbRows[i].status = "Requested"

\* A request has been rejected and a reset accepted in one sync.
C25_Witness ==
    \E i, j \in SyRows :
      /\ syItem[i].action = "rejected" /\ <<"request", i>> \in syCalls
      /\ syItem[j].action = "accepted" /\ <<"reset", j>> \in syCalls


\* ---- the progress callback

\* The episodes whose task ended with a reported outcome.
Processed == {e \in Episodes : pc[e] \in {"done", "failed", "stopped"}}

\* C31: a progress callback that throws never blocks or fails the run of the
\* TranscriptQueue: every request slot taken is held by a task that is still
\* in its initiating step, and a run that is not stopped and has nothing
\* left to happen has processed every episode and resolved.
C31_FailingSinkHarmless ==
    sinkThrows =>
        /\ activeRequests = Cardinality(InitiatingEpisodes)
        /\ (QueueQuiescent /\ ~aborted) =>
             /\ Processed = 1 .. total
             /\ resolveCount = 1


\* ---- the states reported per episode

\* The transitions between reported states.
Transitions ==
    {<<"queued", IF retryMode THEN "checking" ELSE "requesting">>}
    \cup {<<"requesting", t>> : t \in {"waiting", "done", "failed"}}
    \cup {<<"waiting", t>> : t \in {"checking", "stopped"}}
    \cup {<<"checking", t>> : t \in {"waiting", "done", "failed"}}

Absorbing == {"done", "failed", "stopped"}

\* C32: the state reported for an episode changes only along requesting ->
\* {waiting, done, failed}, waiting -> {checking, stopped}, checking ->
\* {waiting, done, failed}, from requesting (retry mode: checking) as its
\* first state; once it is done, failed or stopped nothing happens for the
\* episode any more: no state, no check, no retry, no stored transcript, no
\* timing entry, and the counters of the result move only in steps of
\* another episode or of stop().
C32_ReportedStatesFollowMachine ==
    [][\A e \in Episodes :
         /\ EpState(e)' # EpState(e) => <<EpState(e), EpState(e)'>> \in Transitions
         /\ EpState(e) \in Absorbing =>
              /\ pc'[e] = pc[e]
              /\ checks'[e] = checks[e]
              /\ retryCount'[e] = retryCount[e]
              /\ (e \in dbTranscript') = (e \in dbTranscript)
              /\ (Guid(e) \in startTimes') = (Guid(e) \in startTimes)
              /\ result' # result =>
                   \/ \E f \in Episodes \ {e} : pc'[f] # pc[f]
                   \/ atStop' # atStop]_vars

\* One episode was downloaded at its second check, another one was stopped
\* in its wait.
C32_Witness ==
    /\ ~retryMode
    /\ \E e \in Episodes : pc[e] = "done" /\ checks[e] = 2
    /\ \E e \in Episodes : pc[e] = "stopped"


\* ---- the enrichment pool

\* C33: in every reachable state of the EnrichmentQueue the number of active
\* tasks, by the counter and by the tasks themselves, is at most the
\* configured concurrency, however task completions and the delayed pump()
\* calls they schedule interleave.
C33_EnrichConcurrencyBound ==
    /\ eqActive <= eqConcurrency
    /\ eqActive = Cardinality({e \in EqEpisodes : eqPc[e] \in EqInFlight})

\* Two tasks completed before either of their pump() calls ran; the first
\* call filled both slots again and the second one is still pending.
C33_Witness ==
    /\ eqConcurrency = 2 /\ eqCompleted = 2
    /\ eqPumpTimers = 1 /\ eqActive = 2


\* ---- the accounting of a run that is not stopped

\* C34: while stop() has not been called and no authentication abort has
\* occurred, pending + requesting + waiting + checking + downloaded + failed
\* is the total; such a run resolves with downloaded + failed = total and
\* stillProcessing = 0.
C34_EveryEpisodeAccounted ==
    ~aborted =>
        /\ Len(queue) + activeRequests + waiting + activeChecks
             + result.downloaded + result.failed = total
        /\ resolveCount > 0 =>
             /\ result.downloaded + result.failed = total
             /\ result.stillProcessing = 0

\* A run of two episodes resolved, never stopped, one episode downloaded at
\* a check and the other one failed.
C34_Witness ==
    /\ resolveCount = 1 /\ ~aborted /\ total = 2
    /\ result.downloaded = 1 /\ result.failed = 1
    /\ \E e \in Episodes : pc[e] = "done" /\ checks[e] >= 1


\* ---- the accounting of a stopped run

\* C35: after stop() or an authentication abort in any state, once nothing
\* of the run is left to happen every episode is counted exactly once among
\* downloaded, failed and stillProcessing:
\* downloaded + failed + stillProcessing = total.
C35_StoppedRunAccounted ==
    (aborted /\ QueueQuiescent) =>
        result.downloaded + result.failed + result.stillProcessing = total


\* ---- the completion of an operation whose lock was cleared

\* C36: when a background operation completes after its lock was cleared by
\* stopSync or by the timeout, its completion handler leaves alone the lock
\* and the queue references of a newer operation: a lock of another
\* operation type, and a queue reference set by another start request, are
\* what they were.
C36_CompletionKeepsNewerLock ==
    [][\A h \in Requests :
         OperationSettles(h) =>
             /\ (operation # NoOperation /\ operation.type # handler[h].type)
                   => operation' = operation
             /\ transcriptQueue \notin {NoQueue, h}
                   => transcriptQueue' = transcriptQueue
             /\ enrichQueue \notin {NoQueue, h}
                   => enrichQueue' = enrichQueue]_vars


\* ---- start() called again

\* C37: for every sequence of start(), stop() and task completions, of the
\* TranscriptQueue and of the EnrichmentQueue, the promise of start() is
\* resolved at most once and the final phase:complete event is emitted at
\* most once; a start() call after the first one changes nothing of the
\* queue: it launches no pump and returns the promise that exists.
C37_ResolvedOnceStartedOnce ==
    /\ [](/\ resolveCount <= 1 /\ phaseCompletes <= 1
          /\ eqResolveCount <= 1)
    /\ [][restartCalls' # restartCalls =>
            UNCHANGED <<tqCounters, tqTiming, tqLife, tqTasks>>]_vars
    /\ [][eqRestartCalls' # eqRestartCalls =>
            UNCHANGED <<eqQueue, eqActive, eqCompleted, eqResult, eqAborted,
                        eqDonePromise, eqRunning, eqPc, eqPumpTimers,
                        eqResolveCount>>]_vars

\* start() was called again on a run that was stopped and has resolved, one
\* of its episodes having been stopped in its wait.
C37_Witness ==
    /\ restartCalls = 1 /\ resolveCount = 1 /\ phaseCompletes = 1
    /\ atStop.called
    /\ \E e \in Episodes : pc[e] = "stopped"


\* ---- pooledMap without rejections

\* The workers that hold an index whose operation has not completed.
Holding == {w \in Workers : wpc[w] \in {"stagger", "running"}}

\* C38: when no operation rejects, for every N >= 0 and K >= 1, every index
\* is claimed by one worker only and its operation is invoked once, the
\* progress callback is called once per completion with completedCount 1, 2,
\* ... in that order (N calls in all), and the call resolves only after all
\* N operations have been invoked and have completed.
C38_EachItemOnceProgressInOrder ==
    rejecting = {} =>
        /\ \A v, w \in Holding : widx[v] = widx[w] => v = w
        /\ NoDuplicates(started)
        /\ NoDuplicates(finished)
        /\ Range(finished) \subseteq Range(started)
        /\ Len(progress) = Len(finished)
        /\ \A k \in 1 .. Len(progress) : progress[k] = <<k, N>>
        /\ poolPromise = "resolved" =>
             /\ Range(started) = 0 .. N - 1
             /\ Range(finished) = 0 .. N - 1
             /\ Len(progress) = N

\* Three items with staggered starts on two workers: resolved after three
\* reports, the last item having completed before the second one.
C38_Witness ==
    /\ rejecting = {} /\ N = 3 /\ poolConcurrency = 2 /\ delayMs
    /\ poolPromise = "resolved"
    /\ progress = <<<<1, 3>>, <<2, 3>>, <<3, 3>>>>
    /\ finished = <<0, 2, 1>>


\* ---- the status cached by the request phase

\* C39: the request phase changes the cached status of an episode to
\* Requested only in a step that issues a request or a reset call for it; a
\* bogus-done episode for which no reset is issued keeps the status that
\* was cached for it.
C39_RequestedOnlyAfterCall ==
    [][syPc = "request" =>
         \A i \in SyRows :
           /\ (dbRows'[i].status = "Requested" /\ dbRows[i].status # "Requested")
                 => \E kind \in {"request", "reset"} :
                       <<kind, i>> \in syCalls' \ syCalls
           /\ (syItem'[i].action = "skipped" /\ syItem[i].action # "skipped")
                 => dbRows'[i].status = dbRows[i].status]_vars


\* ---- the timing statistics

\* C40: in every reachable state the number of durations recorded is
\* downloaded + failed: one per episode that ended done or failed, none for
\* an episode that is stopped or still in flight.
C40_OneDurationPerCompleted ==
    completedDurations = result.downloaded + result.failed

====
